---- MODULE Spec2Model ----
(***************************************************************************)
(* graphix-perceval: the photon registry / circuit builder                 *)
(* (PercevalCircuitConstructor, converter.py) and the runtime adapter      *)
(* (PercevalExperiment, experiment.py).                                    *)
(*                                                                         *)
(* Conventions.                                                            *)
(*  - Python lists are sequences; a photon id p is the photon at position  *)
(*    p + 1 of the photon list (Python indexes from 0, TLA+ from 1).       *)
(*  - Python dicts keep insertion order: a dict is a sequence of           *)
(*    [key, val] entries.                                                  *)
(*  - An optional value (None or v) is << >> or <<v>>.                     *)
(*  - Angles are integers counting multiples of pi/8; a measurement angle  *)
(*    of the phase dictionary is an integer v standing for v/2, so that    *)
(*    (pi - 2*angle*pi)/8 is (1 - v) * pi/8.                               *)
(***************************************************************************)
EXTENDS Integers, Sequences, FiniteSets, TLC

VARIABLES
    pcc,        \* the PercevalCircuitConstructor object
    readouts,   \* the output nodes handed to every add_cluster call
    phasedict,  \* the node -> angle dictionary handed to every add_cluster call
    ret,        \* the outcome of the last call
    history,    \* the outcomes so far that the ordering of the calls depends on
    exp,        \* the PercevalExperiment object
    qry,        \* what the backend saw when the last query was executed
    ext         \* the decomposition of a graph into clusters, as far as it got

vars == <<pcc, readouts, phasedict, ret, history, exp, qry, ext>>

-----------------------------------------------------------------------------
(* Bounds *)

MaxPhotons == 3
MaxFusionPairs == 4
MaxCorrections == 1
MaxVops == 2

\* The node ids of the input graph.
NodeIds == {0, 1}

\* ClusterType: the two supported members, and one that is neither.
ClusterTypes == {"GHZ", "LINEAR", "NONE"}

DistinctSeqs(S, n) ==
    {s \in UNION {[1..k -> S] : k \in 0..n} :
        \A i, j \in 1..Len(s) : i < j => s[i] /= s[j]}

Range(s) == {s[i] : i \in 1..Len(s)}

\* A cluster: its type and the nodes of its graph, in iteration order.
Clusters ==
    {[type |-> t, nodes |-> ns] :
        t \in ClusterTypes,
        ns \in {s \in DistinctSeqs(NodeIds, MaxPhotons) : Len(s) >= 1}}

\* The node -> angle dictionary: node 1 is measured at angle 1/2, the other
\* nodes have no entry.
PhaseDicts == {[n \in {1} |-> 1]}

\* The designated output nodes: node 0 is an output, node 1 is measured.
Readouts == {{0}}

\* Clifford indices: one inside [0, 23] and one outside.
CliffordIds == {23, 24}

\* vops: a dict node id -> clifford index, as its items in order.
Vops ==
    {v \in UNION {[1..n -> NodeIds \X CliffordIds] : n \in 0..MaxVops} :
        \A i, j \in 1..Len(v) : i < j => v[i][1] /= v[j][1]}

-----------------------------------------------------------------------------
(* Python helpers *)

Get(d, k) == IF k \in DOMAIN d THEN <<d[k]>> ELSE << >>

DictHas(d, k) == \E i \in 1..Len(d) : d[i].key = k

DictGet(d, k) == d[CHOOSE i \in 1..Len(d) : d[i].key = k].val

\* list(range(a, b))
range(a, b) == [i \in 1..(IF b > a THEN b - a ELSE 0) |-> a + i - 1]

RECURSIVE Insert(_, _)
Insert(s, x) ==
    IF s = << >> THEN <<x>>
    ELSE IF x < s[1] THEN <<x>> \o s
    ELSE <<s[1]>> \o Insert(Tail(s), x)

RECURSIVE sorted(_)
sorted(s) == IF s = << >> THEN << >> ELSE Insert(sorted(Tail(s)), s[1])

-----------------------------------------------------------------------------
(* experiment.py: Photon *)

Photon(exp_id, type, node_id, angle) ==
    [id |-> exp_id, type |-> type, node_id |-> node_id,
     angle |-> IF angle /= << >> /\ angle[1] /= 0
               THEN <<2, 1 - angle[1]>>
               ELSE <<2, 1>>]

-----------------------------------------------------------------------------
(* converter.py: PercevalCircuitConstructor *)

NewConstructor ==
    [num_photons |-> 0, clusters |-> << >>, fusion_pairs |-> << >>,
     photons |-> << >>, node_id2photon_ids |-> << >>,
     clifford_comps |-> << >>, is_fused |-> FALSE, clifford_applied |-> FALSE]

\* A mutant of AddNode: the counter is incremented before the photon is made.
AddNodeCountFirst(self, node_id, pd, ro) ==
    LET ph == Photon(self.num_photons + 1,
                     IF node_id \in ro THEN "READOUT" ELSE "COMPUTE",
                     node_id, Get(pd, node_id))
        d  == self.node_id2photon_ids
        nd == IF DictHas(d, node_id)
              THEN [i \in 1..Len(d) |->
                      IF d[i].key = node_id
                      THEN [d[i] EXCEPT !.val = Append(@, self.num_photons)]
                      ELSE d[i]]
              ELSE Append(d, [key |-> node_id, val |-> <<self.num_photons>>])
    IN  [self EXCEPT !.node_id2photon_ids = nd,
                     !.num_photons = @ + 1,
                     !.photons = Append(@, ph)]

\* A mutant of AddNode: the output nodes are not looked at, every photon is
\* a COMPUTE photon.
AddNodeAllCompute(self, node_id, pd, ro) ==
    LET ph == Photon(self.num_photons, "COMPUTE", node_id, Get(pd, node_id))
        d  == self.node_id2photon_ids
        nd == IF DictHas(d, node_id)
              THEN [i \in 1..Len(d) |->
                      IF d[i].key = node_id
                      THEN [d[i] EXCEPT !.val = Append(@, self.num_photons)]
                      ELSE d[i]]
              ELSE Append(d, [key |-> node_id, val |-> <<self.num_photons>>])
    IN  [self EXCEPT !.node_id2photon_ids = nd,
                     !.num_photons = @ + 1,
                     !.photons = Append(@, ph)]

\* One iteration of the loop of add_cluster over cluster.graph.nodes.
AddNode(self, node_id, pd, ro) ==
    LET ph == Photon(self.num_photons,
                     IF node_id \in ro THEN "READOUT" ELSE "COMPUTE",
                     node_id, Get(pd, node_id))
        d  == self.node_id2photon_ids
        nd == IF DictHas(d, node_id)
              THEN [i \in 1..Len(d) |->
                      IF d[i].key = node_id
                      THEN [d[i] EXCEPT !.val = Append(@, self.num_photons)]
                      ELSE d[i]]
              ELSE Append(d, [key |-> node_id, val |-> <<self.num_photons>>])
    IN  [self EXCEPT !.node_id2photon_ids = nd,
                     !.num_photons = @ + 1,
                     !.photons = Append(@, ph)]

RECURSIVE AddNodes(_, _, _, _)
AddNodes(self, nodes, pd, ro) ==
    IF nodes = << >> THEN self
    ELSE AddNodes(AddNode(self, nodes[1], pd, ro), Tail(nodes), pd, ro)

\* A mutant of add_cluster: the check of _is_fused is lost.
add_cluster_after_fusion(self, cluster, pd, ro) ==
    LET s1 == AddNodes(self, cluster.nodes, pd, ro)
    IN  IF cluster.type \in {"GHZ", "LINEAR"}
        THEN [self |-> [s1 EXCEPT !.clusters = Append(@, cluster)],
              raised |-> "None"]
        ELSE [self |-> s1, raised |-> "TypeError"]

add_cluster(self, cluster, pd, ro) ==
    IF self.is_fused
    THEN [self |-> self, raised |-> "RuntimeError"]
    ELSE LET s1 == AddNodes(self, cluster.nodes, pd, ro)
         IN  IF cluster.type \in {"GHZ", "LINEAR"}
             THEN [self |-> [s1 EXCEPT !.clusters = Append(@, cluster)],
                   raised |-> "None"]
             ELSE [self |-> s1, raised |-> "TypeError"]

\* A mutant of FuseIds: the photon with the smaller index becomes the witness.
RECURSIVE FuseIdsLower(_, _, _)
FuseIdsLower(self, fusing_photons, idx) ==
    IF idx > Len(fusing_photons) - 1 THEN self
    ELSE LET a == fusing_photons[idx]
             b == fusing_photons[idx + 1]
         IN  FuseIdsLower([self EXCEPT !.fusion_pairs = Append(@, <<a, b>>),
                                       !.photons[a + 1].type = "WITNESS"],
                          fusing_photons, idx + 1)

\* The inner loop of add_fusions over one node's sorted photon ids.
RECURSIVE FuseIds(_, _, _)
FuseIds(self, fusing_photons, idx) ==
    IF idx > Len(fusing_photons) - 1 THEN self
    ELSE LET a == fusing_photons[idx]
             b == fusing_photons[idx + 1]
         IN  FuseIds([self EXCEPT !.fusion_pairs = Append(@, <<a, b>>),
                                  !.photons[b + 1].type = "WITNESS"],
                     fusing_photons, idx + 1)

\* The outer loop of add_fusions over the items of node_id2photon_ids.
RECURSIVE FuseNodes(_, _)
FuseNodes(self, i) ==
    IF i > Len(self.node_id2photon_ids) THEN self
    ELSE FuseNodes(FuseIds(self, sorted(self.node_id2photon_ids[i].val), 1),
                   i + 1)

add_fusions(self) ==
    [self |-> [FuseNodes(self, 1) EXCEPT !.is_fused = TRUE], raised |-> "None"]

-----------------------------------------------------------------------------
(* converter.py: the sub-circuit generators.  A component is             *)
(* [name, m, args, comps]: m its number of modes, args its parameters,    *)
(* comps the elements [port, comp] added to it (empty for a primitive).   *)

Comp(name, m, args) == [name |-> name, m |-> m, args |-> args, comps |-> << >>]

HWP(angle) == Comp("HWP", 1, <<angle>>)
QWP(angle) == Comp("QWP", 1, <<angle>>)
PBS == Comp("PBS", 2, << >>)
PERM(perm) == Comp("PERM", Len(perm), perm)

\* circ.add(port, comp) on a sub-circuit
Add(circ, port, comp) ==
    [circ EXCEPT !.comps = Append(@, [port |-> port, comp |-> comp])]

RECURSIVE AddEach(_, _, _)
\* for i in ports: circ.add(i, comp)
AddEach(circ, ports, comp) ==
    IF ports = << >> THEN circ
    ELSE AddEach(Add(circ, ports[1], comp), Tail(ports), comp)

-----------------------------------------------------------------------------
(* clifford.py: the tables.  Python indexes them from 0: the entry of      *)
(* index i is at position i + 1.  The angles count multiples of pi/8.      *)

\* comp.BS(theta, phi_tl, phi_bl, phi_tr, phi_br), each 0 if not given
BS(theta, phi_tl, phi_bl, phi_tr, phi_br) ==
    Comp("BS", 2, <<theta, phi_tl, phi_bl, phi_tr, phi_br>>)

\* comp.WP(delta, xsi)
WP(delta, xsi) == Comp("WP", 1, <<delta, xsi>>)

\* comp.PS(phi)
PS(phi) == Comp("PS", 1, <<phi>>)

\* A mutant of CLIFFORD_CONJ: the S gate (index 4) is given as its own
\* conjugate.
CLIFFORD_CONJ_S_FIXED ==
    <<0, 1, 2, 3, 4, 4, 6, 15, 12, 9, 10, 11, 8, 13, 14, 7, 20, 22, 23, 21, 16, 19, 17, 18>>

CLIFFORD_CONJ ==
    <<0, 1, 2, 3, 5, 4, 6, 15, 12, 9, 10, 11, 8, 13, 14, 7, 20, 22, 23, 21, 16, 19, 17, 18>>

CLIFFORD_TO_PERCEVAL_BS ==
    <<<<BS(0, 0, 0, 0, 0)>>,
      <<BS(8, 0, -4, 0, -4)>>,
      <<BS(8, -4, 4, 4, 4)>>,
      <<BS(0, 0, 4, 0, 4)>>,
      <<BS(0, 0, 0, 0, 4)>>,
      <<BS(0, 0, 0, 0, -4)>>,
      <<BS(4, 0, 12, 0, 12)>>,
      <<BS(4, 4, -4, -4, 4)>>,
      <<BS(4, 0, 4, 0, 12)>>,
      <<BS(8, 6, 0, -6, 0)>>,
      <<BS(8, -6, 0, 6, 0)>>,
      <<BS(4, 0, 4, 0, 4)>>,
      <<BS(4, 6, 2, 2, 6)>>,
      <<BS(4, 0, 0, 4, 12)>>,
      <<BS(4, 4, 12, 0, 0)>>,
      <<BS(4, 0, 0, 8, 24)>>,
      <<BS(4, 0, 8, 6, 2)>>,
      <<BS(4, 0, 0, 6, 10)>>,
      <<BS(4, 0, 8, 2, 6)>>,
      <<BS(4, 0, 0, 10, 6)>>,
      <<BS(4, 10, 6, 0, 0)>>,
      <<BS(4, 4, 0, 2, 10)>>,
      <<BS(4, 0, 4, 2, 10)>>,
      <<BS(4, 6, 10, 0, 0)>>>>

CLIFFORD_TO_PERCEVAL_POLAR ==
    <<<<WP(0, 0)>>,
      <<WP(4, 2), PS(-4)>>,
      <<WP(4, 0), WP(4, 2), PS(-4)>>,
      <<WP(4, 0), PS(-4)>>,
      <<WP(-2, 0), PS(2)>>,
      <<WP(2, 0), PS(14)>>,
      <<WP(4, 1), PS(12)>>,
      <<WP(6, 2), PS(8)>>,
      <<WP(4, 1), WP(4, 2), PS(8)>>,
      <<WP(-2, 8), WP(4, 2), PS(8)>>,
      <<WP(2, 8), WP(4, 2), PS(-8)>>,
      <<WP(4, 3), PS(4)>>,
      <<WP(4, 3), WP(4, 2)>>,
      <<WP(2, 2), WP(4, 0)>>,
      <<WP(2, 6), WP(4, 0)>>,
      <<WP(2, 2), PS(8)>>,
      <<WP(2, 0), WP(4, 1)>>,
      <<WP(2, 0), WP(4, 3), PS(8)>>,
      <<WP(2, 4), WP(4, 3), PS(8)>>,
      <<WP(2, 4), WP(4, 5)>>,
      <<WP(2, 0), WP(2, 2), PS(8)>>,
      <<WP(2, 2), WP(4, 1)>>,
      <<WP(2, 0), WP(2, 6)>>,
      <<WP(2, 4), WP(2, 2), PS(8)>>>>

-----------------------------------------------------------------------------
(* converter.py: local_clifford_circuit *)

RECURSIVE AddAllReversed(_, _, _)
\* A mutant of AddAll: the operators of the row are added last to first.
AddAllReversed(circ, port, row) ==
    IF row = << >> THEN circ
    ELSE AddAllReversed(Add(circ, port, row[Len(row)]), port,
                        SubSeq(row, 1, Len(row) - 1))

RECURSIVE AddAll(_, _, _)
\* for comps in row: circ.add(port, comps)
AddAll(circ, port, row) ==
    IF row = << >> THEN circ
    ELSE AddAll(Add(circ, port, row[1]), port, Tail(row))

\* A mutant of local_clifford_circuit: the index 0 is rejected.
local_clifford_circuit_from_1(clifford_id) ==
    IF ~(0 < clifford_id /\ clifford_id <= 23)
    THEN [raised |-> "ValueError", value |-> << >>]
    ELSE [raised |-> "None",
          value |-> <<AddAll(Comp("LOCAL CLIFFORD ID", 1, <<clifford_id>>), 0,
                             CLIFFORD_TO_PERCEVAL_POLAR[clifford_id + 1])>>]

local_clifford_circuit(clifford_id) ==
    IF ~(0 <= clifford_id /\ clifford_id <= 23)
    THEN [raised |-> "ValueError", value |-> << >>]
    ELSE [raised |-> "None",
          value |-> <<AddAll(Comp("LOCAL CLIFFORD ID", 1, <<clifford_id>>), 0,
                             CLIFFORD_TO_PERCEVAL_POLAR[clifford_id + 1])>>]

\* A mutant of fusion_circuit: the permutation is not applied again after
\* the fusion.
fusion_circuit_unrestored(p1, p2) ==
    LET swap == p1.type = "WITNESS" /\ p1.id > p2.id
        ph1  == IF swap THEN p2 ELSE p1
        ph2  == IF swap THEN p1 ELSE p2
        l    == ph2.id - ph1.id
        perm == PERM(<<l - 1>> \o range(1, l - 1) \o <<0>>)
        c0   == Comp("FUSE", l + 1, <<ph1.id, ph2.id>>)
        c1   == IF l > 1 THEN Add(c0, 1, perm) ELSE c0
        c2   == Add(Add(c1, 0, PBS), 1, HWP(1))
    IN  IF ph2.type /= "WITNESS"
        THEN [raised |-> "ValueError", value |-> << >>]
        ELSE [raised |-> "None", value |-> <<c2>>]

fusion_circuit(p1, p2) ==
    LET swap == p1.type = "WITNESS" /\ p1.id > p2.id
        ph1  == IF swap THEN p2 ELSE p1
        ph2  == IF swap THEN p1 ELSE p2
        l    == ph2.id - ph1.id
        perm == PERM(<<l - 1>> \o range(1, l - 1) \o <<0>>)
        c0   == Comp("FUSE", l + 1, <<ph1.id, ph2.id>>)
        c1   == IF l > 1 THEN Add(c0, 1, perm) ELSE c0
        c2   == Add(Add(c1, 0, PBS), 1, HWP(1))
        c3   == IF l > 1 THEN Add(c2, 1, perm) ELSE c2
    IN  IF ph2.type /= "WITNESS"
        THEN [raised |-> "ValueError", value |-> << >>]
        ELSE [raised |-> "None", value |-> <<c3>>]

RECURSIVE LinearLoopToTheEnd(_, _, _)
\* A mutant of LinearLoop: the last splitter is followed by a rotation too.
LinearLoopToTheEnd(circ, i, num_photons) ==
    IF i >= num_photons - 1 THEN circ
    ELSE LET c1 == Add(circ, i, PBS)
             c2 == IF i >= 1 THEN Add(c1, i + 1, HWP(1)) ELSE c1
         IN  LinearLoopToTheEnd(c2, i + 1, num_photons)

RECURSIVE LinearLoop(_, _, _)
\* for i in range(num_photons - 1): PBS on (i, i+1), then the inner HWP
LinearLoop(circ, i, num_photons) ==
    IF i >= num_photons - 1 THEN circ
    ELSE LET c1 == Add(circ, i, PBS)
             c2 == IF i >= 1 /\ i /= num_photons - 2
                   THEN Add(c1, i + 1, HWP(1)) ELSE c1
         IN  LinearLoop(c2, i + 1, num_photons)

linear_circuit(num_photons) ==
    LET c1 == AddEach(Comp("LINEAR", num_photons, <<num_photons>>),
                      range(0, num_photons), HWP(1))
        c2 == LinearLoop(c1, 0, num_photons)
        c3 == Add(c2, 0, PERM(range(0, num_photons)))
        c4 == Add(c3, 0, HWP(1))
    IN  Add(c4, num_photons - 1, HWP(1))

ghz_circuit(num_photons) ==
    LET c1 == AddEach(Comp("GHZ", num_photons, <<num_photons>>),
                      range(0, num_photons), HWP(1))
        c2 == AddEach(c1, range(0, num_photons - 1), PBS)
    IN  AddEach(c2, range(1, num_photons), HWP(1))

-----------------------------------------------------------------------------
(* converter.py: apply_local_clifford and setup_perceval_circuit *)

RECURSIVE CliffordPhotonsAll(_, _, _)
\* A mutant of CliffordPhotons: the type of the photon is not looked at.
CliffordPhotonsAll(self, ids, cid) ==
    IF ids = << >> THEN [self |-> self, raised |-> "None"]
    ELSE LET c == local_clifford_circuit(cid)
         IN  IF c.raised /= "None"
             THEN [self |-> self, raised |-> c.raised]
             ELSE CliffordPhotonsAll(
                      [self EXCEPT !.clifford_comps =
                           Append(@, [photon_id |-> ids[1], comp |-> c.value[1]])],
                      Tail(ids), cid)

RECURSIVE CliffordPhotons(_, _, _)
\* for ph_id in self.node_id2photon_ids[node_id]
CliffordPhotons(self, ids, cid) ==
    IF ids = << >> THEN [self |-> self, raised |-> "None"]
    ELSE IF self.photons[ids[1] + 1].type /= "WITNESS"
    THEN LET c == local_clifford_circuit(cid)
         IN  IF c.raised /= "None"
             THEN [self |-> self, raised |-> c.raised]
             ELSE CliffordPhotons(
                      [self EXCEPT !.clifford_comps =
                           Append(@, [photon_id |-> ids[1], comp |-> c.value[1]])],
                      Tail(ids), cid)
    ELSE CliffordPhotons(self, Tail(ids), cid)

RECURSIVE CliffordNodesPop(_, _)
\* A mutant of CliffordNodes: the photon ids of a node are taken out of the
\* node-to-photon map (pop) instead of looked up.
CliffordNodesPop(self, vops) ==
    IF vops = << >> THEN [self |-> self, raised |-> "None"]
    ELSE LET node_id == vops[1][1]
             cid     == vops[1][2]
         IN  IF ~DictHas(self.node_id2photon_ids, node_id)
             THEN [self |-> self, raised |-> "KeyError"]
             ELSE LET r == CliffordPhotons(
                               [self EXCEPT !.node_id2photon_ids =
                                    SelectSeq(@, LAMBDA e : e.key /= node_id)],
                               DictGet(self.node_id2photon_ids, node_id), cid)
                  IN  IF r.raised /= "None" THEN r
                      ELSE CliffordNodesPop(r.self, Tail(vops))

RECURSIVE CliffordNodes(_, _)
\* for node_id, cid in vops.items()
CliffordNodes(self, vops) ==
    IF vops = << >> THEN [self |-> self, raised |-> "None"]
    ELSE LET node_id == vops[1][1]
             cid     == vops[1][2]
         IN  IF ~DictHas(self.node_id2photon_ids, node_id)
             THEN [self |-> self, raised |-> "KeyError"]
             ELSE LET r == CliffordPhotons(
                               self, DictGet(self.node_id2photon_ids, node_id), cid)
                  IN  IF r.raised /= "None" THEN r
                      ELSE CliffordNodes(r.self, Tail(vops))

apply_local_clifford(self, vops) ==
    IF ~self.is_fused
    THEN [self |-> self, raised |-> "RuntimeError"]
    ELSE LET r == CliffordNodes(self, vops)
         IN  IF r.raised /= "None" THEN r
             ELSE [self |-> [r.self EXCEPT !.clifford_applied = TRUE],
                   raised |-> "None"]

\* An element of the network: the stage of setup_perceval_circuit that added
\* it (1 clusters, 2 barrier, 3 fusions, 4 barrier, 5 local cliffords,
\* 6 barrier, 7 measurement bases, 8 dual-rail conversion), the first mode
\* it is placed on, and the component.
Elem(stage, port, comp) == [stage |-> stage, port |-> port, comp |-> comp]

RECURSIVE ClusterStage(_, _)
ClusterStage(clusters, photon_idx) ==
    IF clusters = << >> THEN << >>
    ELSE LET cl == clusters[1]
             n  == Len(cl.nodes)
             e  == IF cl.type = "GHZ"
                   THEN <<Elem(1, photon_idx, ghz_circuit(n))>>
                   ELSE IF cl.type = "LINEAR"
                   THEN <<Elem(1, photon_idx, linear_circuit(n))>>
                   ELSE << >>
         IN  e \o ClusterStage(Tail(clusters), photon_idx + n)

RECURSIVE FusionStage(_, _)
\* [raised, value]: fusion_circuit may raise
FusionStage(self, pairs) ==
    IF pairs = << >> THEN [raised |-> "None", value |-> << >>]
    ELSE LET ph1 == self.photons[pairs[1][1] + 1]
             ph2 == self.photons[pairs[1][2] + 1]
             f   == fusion_circuit(ph1, ph2)
             r   == FusionStage(self, Tail(pairs))
         IN  IF f.raised /= "None" THEN [raised |-> f.raised, value |-> << >>]
             ELSE IF r.raised /= "None" THEN r
             ELSE [raised |-> "None",
                   value |-> <<Elem(3, ph1.id, f.value[1])>> \o r.value]

CliffordStage(self) ==
    [i \in 1..Len(self.clifford_comps) |->
        Elem(5, self.clifford_comps[i].photon_id, self.clifford_comps[i].comp)]

RECURSIVE BasisStageReadouts(_)
\* A mutant of BasisStage: the READOUT photons are rotated as well.
BasisStageReadouts(photons) ==
    IF photons = << >> THEN << >>
    ELSE LET ph == photons[1]
         IN  (IF ph.type \in {"COMPUTE", "READOUT"}
              THEN <<Elem(7, ph.id, QWP(ph.angle[1])),
                     Elem(7, ph.id, HWP(ph.angle[2]))>>
              ELSE << >>) \o BasisStageReadouts(Tail(photons))

RECURSIVE BasisStage(_)
BasisStage(photons) ==
    IF photons = << >> THEN << >>
    ELSE LET ph == photons[1]
         IN  (IF ph.type = "COMPUTE"
              THEN <<Elem(7, ph.id, QWP(ph.angle[1])),
                     Elem(7, ph.id, HWP(ph.angle[2]))>>
              ELSE << >>) \o BasisStage(Tail(photons))

\* A mutant of ConversionStage: the splitter of photon i is placed at mode i.
ConversionStagePacked(num_photons) ==
    <<Elem(8, 0, PERM([i \in 1..num_photons |-> 2 * (i - 1)] \o
                      [i \in 1..num_photons |-> 2 * (i - 1) + 1]))>> \o
    [i \in 1..num_photons |-> Elem(8, i - 1, PBS)]

ConversionStage(num_photons) ==
    <<Elem(8, 0, PERM([i \in 1..num_photons |-> 2 * (i - 1)] \o
                      [i \in 1..num_photons |-> 2 * (i - 1) + 1]))>> \o
    [i \in 1..num_photons |-> Elem(8, (i - 1) * 2, PBS)]

\* The stages after the fusion sub-circuits: barrier, local cliffords,
\* barrier, measurement bases, dual-rail conversion.
LaterStages(self) ==
    LET n == self.num_photons
    IN  <<Elem(4, 0, PERM(range(0, n)))>>
        \o CliffordStage(self)
        \o <<Elem(6, 0, PERM(range(0, n * 2)))>>
        \o BasisStage(self.photons)
        \o ConversionStage(n)

\* A mutant of Assemble: the fusion sub-circuits are added before the clusters.
AssembleFusionsFirst(self) ==
    LET n  == self.num_photons
        fs == FusionStage(self, self.fusion_pairs)
    IN  IF fs.raised /= "None" THEN [raised |-> fs.raised, value |-> << >>]
        ELSE [raised |-> "None",
              value |-> <<[m |-> n * 2,
                           elems |-> fs.value
                                     \o ClusterStage(self.clusters, 0)
                                     \o <<Elem(2, 0, PERM(range(0, n)))>>
                                     \o LaterStages(self)]>>]

\* The body of setup_perceval_circuit after its two checks.
Assemble(self) ==
    LET n  == self.num_photons
        fs == FusionStage(self, self.fusion_pairs)
    IN  IF fs.raised /= "None" THEN [raised |-> fs.raised, value |-> << >>]
        ELSE [raised |-> "None",
              value |-> <<[m |-> n * 2,
                           elems |-> ClusterStage(self.clusters, 0)
                                     \o <<Elem(2, 0, PERM(range(0, n)))>>
                                     \o fs.value
                                     \o LaterStages(self)]>>]

\* A mutant of setup_perceval_circuit: the check of _clifford_applied is lost.
setup_without_clifford_check(self) ==
    IF ~self.is_fused THEN [raised |-> "RuntimeError", value |-> << >>]
    ELSE Assemble(self)

setup_perceval_circuit(self) ==
    IF ~self.is_fused THEN [raised |-> "RuntimeError", value |-> << >>]
    ELSE IF ~self.clifford_applied
    THEN [raised |-> "RuntimeError", value |-> << >>]
    ELSE Assemble(self)

-----------------------------------------------------------------------------
(* experiment.py: PercevalExperiment.  The processor is the backend object *)
(* of the optics library: it keeps the circuit, the input state and the    *)
(* postselection constraint last installed on it.                          *)

PercevalExperiment(circuit, photons) ==
    [constructed |-> TRUE, circ |-> circuit, photons |-> photons,
     processor |-> << >>, backend |-> << >>,
     input_state |-> << >>, output_states |-> << >>]

Processor(kind, backend, circ) ==
    [kind |-> kind, backend |-> backend, circ |-> circ,
     input |-> << >>, postselect |-> << >>]

get_readout_photons(self) == SelectSeq(self.photons, LAMBDA ph : ph.type = "READOUT")

get_compute_photons(self) == SelectSeq(self.photons, LAMBDA ph : ph.type = "COMPUTE")

get_witness_photons(self) == SelectSeq(self.photons, LAMBDA ph : ph.type = "WITNESS")

NoProcessor == "Exception"

set_input_state(self) ==
    IF self.processor = << >> THEN [self |-> self, raised |-> NoProcessor]
    ELSE LET n == Len(self.photons)
             input_state == [i \in 1..n |-> "{P:H}"] \o [i \in 1..n |-> "0"]
         IN  [self |-> [self EXCEPT !.input_state = <<input_state>>,
                                    !.processor[1].input = <<input_state>>],
              raised |-> "None"]

\* itertools.product(pool, repeat=n): the last position advances fastest.
RECURSIVE product(_, _)
product(pool, repeat) ==
    IF repeat = 0 THEN << << >> >>
    ELSE LET prev == product(pool, repeat - 1)
         IN  [k \in 1..(Len(prev) * Len(pool)) |->
                 Append(prev[((k - 1) \div Len(pool)) + 1],
                        pool[((k - 1) % Len(pool)) + 1])]

\* itertools.chain.from_iterable
RECURSIVE chain(_)
chain(ss) == IF ss = << >> THEN << >> ELSE ss[1] \o chain(Tail(ss))

\* The binary digits of x >= 0, most significant first ("0" for 0).
RECURSIVE Bin(_)
Bin(x) == IF x < 2 THEN <<x>> ELSE Bin(x \div 2) \o <<x % 2>>

\* A mutant of Format: the digits are not padded.
FormatNoPad(x, width) == Bin(x)

\* f"{x:0{width}b}": the digits of x, padded with zeros on the left to width.
Format(x, width) ==
    LET digits == Bin(x)
    IN  [i \in 1..(IF width > Len(digits) THEN width - Len(digits) ELSE 0) |-> 0]
        \o digits

\* d[key] = val on an insertion-ordered dict
DictSet(d, key, val) ==
    IF DictHas(d, key)
    THEN [i \in 1..Len(d) |-> IF d[i].key = key THEN [d[i] EXCEPT !.val = val] ELSE d[i]]
    ELSE Append(d, [key |-> key, val |-> val])

\* The full-mode outcome of one assignment st to the readout photons.
BasicOutState(self, st) ==
    LET rs    == get_readout_photons(self)
        fixed == Range(get_witness_photons(self)) \cup Range(get_compute_photons(self))
    IN  [j \in 1..Len(self.photons) |->
            IF \E i \in 1..Len(rs) : rs[i].id = j - 1
            THEN st[CHOOSE i \in 1..Len(rs) : rs[i].id = j - 1]
            ELSE IF \E ph \in fixed : ph.id = j - 1
            THEN <<0, 1>>
            ELSE << >>]

RECURSIVE OutStates(_, _, _, _)
\* the loop of set_output_states over the assignments, x counting them
OutStates(self, sts, x, out_states) ==
    IF sts = << >> THEN out_states
    ELSE OutStates(self, Tail(sts), x + 1,
                   DictSet(out_states, chain(BasicOutState(self, sts[1])),
                           Format(x, Len(get_readout_photons(self)))))

\* A mutant of set_output_states: the check of the processor is lost.
set_output_states_unchecked(self) ==
    [self |-> [self EXCEPT !.output_states =
                    <<OutStates(self,
                                product(<< <<0, 1>>, <<1, 0>> >>,
                                        Len(get_readout_photons(self))),
                                0, << >>)>>],
     raised |-> "None"]

set_output_states(self) ==
    IF self.processor = << >> THEN [self |-> self, raised |-> NoProcessor]
    ELSE [self |-> [self EXCEPT !.output_states =
                        <<OutStates(self,
                                    product(<< <<0, 1>>, <<1, 0>> >>,
                                            Len(get_readout_photons(self))),
                                    0, << >>)>>],
          raised |-> "None"]

\* A mutant of Bind: a processor that is already set is kept.
BindOnce(self, processor) ==
    LET s1 == IF self.processor /= << >> THEN self
              ELSE [self EXCEPT !.processor = <<processor>>,
                                !.backend = <<processor.backend>>]
        r1 == set_input_state(s1)
    IN  IF r1.raised /= "None" THEN r1 ELSE set_output_states(r1.self)

\* Bind(self, processor): the tail shared by the two set_*_processor methods
Bind(self, processor) ==
    LET s1 == [self EXCEPT !.processor = <<processor>>,
                           !.backend = <<processor.backend>>]
        r1 == set_input_state(s1)
    IN  IF r1.raised /= "None" THEN r1 ELSE set_output_states(r1.self)

set_local_processor(self, backend) == Bind(self, Processor("local", backend, self.circ))

set_remote_processor(self, backend) == Bind(self, Processor("remote", backend, self.circ))

\* ps.eq(modes, value)
Eq(modes, value) == [modes |-> modes, value |-> value]

RECURSIVE EqEachSecondRail(_, _)
\* A mutant of EqEach: a photon that is not a readout is constrained on its
\* second mode only.
EqEachSecondRail(photons, readout) ==
    IF photons = << >> THEN << >>
    ELSE LET ph == photons[1]
         IN  (IF readout
              THEN <<Eq(<<2 * ph.id, 2 * ph.id + 1>>, 1)>>
              ELSE <<Eq(<<2 * ph.id + 1>>, 1)>>)
             \o EqEachSecondRail(Tail(photons), readout)

RECURSIVE EqEach(_, _)
\* for ph in photons: the conditions on a readout photon, or on the others
EqEach(photons, readout) ==
    IF photons = << >> THEN << >>
    ELSE LET ph == photons[1]
         IN  (IF readout
              THEN <<Eq(<<2 * ph.id, 2 * ph.id + 1>>, 1)>>
              ELSE <<Eq(<<2 * ph.id>>, 0), Eq(<<2 * ph.id + 1>>, 1)>>)
             \o EqEach(Tail(photons), readout)

\* A mutant of PostSelect: the witness photons are left unconstrained.
PostSelectNoWitness(self) ==
    EqEach(get_readout_photons(self), TRUE)
    \o EqEach(get_compute_photons(self), FALSE)

PostSelect(self) ==
    EqEach(get_readout_photons(self), TRUE)
    \o EqEach(get_compute_photons(self), FALSE)
    \o EqEach(get_witness_photons(self), FALSE)

set_postselection(self) ==
    IF self.processor = << >> THEN [self |-> self, raised |-> "AttributeError"]
    ELSE [self |-> [self EXCEPT !.processor[1].postselect = <<PostSelect(self)>>],
          raised |-> "None"]

\* get_probability_distribution and sample up to the call of the backend:
\* [self, raised, ran], ran the postselection the backend runs the query under
Query(self, postselection) ==
    IF self.processor = << >>
    THEN [self |-> self, raised |-> NoProcessor, ran |-> << >>]
    ELSE LET r == IF postselection THEN set_postselection(self)
                  ELSE [self |-> self, raised |-> "None"]
         IN  [self |-> r.self, raised |-> r.raised,
              ran |-> r.self.processor[1].postselect]

RECURSIVE ReplaceLoopKeepUnmapped(_, _, _)
\* A mutant of ReplaceLoop: an outcome that is no key of the map is kept
\* under its own key.
ReplaceLoopKeepUnmapped(counts, replace_dict, replaced) ==
    IF counts = << >> THEN replaced
    ELSE IF ~DictHas(replace_dict, counts[1].key)
    THEN ReplaceLoopKeepUnmapped(Tail(counts), replace_dict,
                                 DictSet(replaced, counts[1].key, counts[1].val))
    ELSE ReplaceLoopKeepUnmapped(Tail(counts), replace_dict,
                                 DictSet(replaced, DictGet(replace_dict, counts[1].key),
                                         counts[1].val))

RECURSIVE ReplaceLoop(_, _, _)
\* for key, value in self.counts.items(): skip the keys the map does not have
ReplaceLoop(counts, replace_dict, replaced) ==
    IF counts = << >> THEN replaced
    ELSE IF ~DictHas(replace_dict, counts[1].key)
    THEN ReplaceLoop(Tail(counts), replace_dict, replaced)
    ELSE ReplaceLoop(Tail(counts), replace_dict,
                     DictSet(replaced, DictGet(replace_dict, counts[1].key),
                             counts[1].val))

\* PhotonCount.replace_keys and PhotonDistribution.replace_keys: the new
\* value of self.counts / self.distribution
replace_keys(counts, replace_dict) == ReplaceLoop(counts, replace_dict, << >>)

\* The raw results a backend may return for an experiment: a dict from
\* detection outcomes (the counts of the 2n modes) to values.  The outcomes
\* drawn are the first and the last key of the output-label map and the
\* outcome with no detection at all, which is no key of it.
RawResults(self) ==
    LET out   == self.output_states[1]
        first == out[1].key
        last  == out[Len(out)].key
        none  == [i \in 1..(2 * Len(self.photons)) |-> 0]
    IN  {<< >>,
         <<[key |-> first, val |-> 1], [key |-> none, val |-> 2]>>,
         <<[key |-> none, val |-> 1], [key |-> last, val |-> 2]>>}

-----------------------------------------------------------------------------
(* converter.py: to_perceval, from the clusters of the pattern's graph on *)

RECURSIVE AddClusters(_, _, _, _)
\* for cluster in clusters: pcc.add_cluster(cluster, phasedict, output_nodes)
AddClusters(self, clusters, pd, output_nodes) ==
    IF clusters = << >> THEN [self |-> self, raised |-> "None"]
    ELSE LET r == add_cluster(self, clusters[1], pd, output_nodes)
         IN  IF r.raised /= "None" THEN r
             ELSE AddClusters(r.self, Tail(clusters), pd, output_nodes)

to_perceval(clusters, pd, output_nodes, vops) ==
    LET r1 == AddClusters(NewConstructor, clusters, pd, output_nodes)
        r2 == add_fusions(r1.self)
        r3 == apply_local_clifford(r2.self, vops)
        r4 == setup_perceval_circuit(r3.self)
    IN  IF r1.raised /= "None" THEN [raised |-> r1.raised, value |-> << >>]
        ELSE IF r3.raised /= "None" THEN [raised |-> r3.raised, value |-> << >>]
        ELSE IF r4.raised /= "None" THEN [raised |-> r4.raised, value |-> << >>]
        ELSE [raised |-> "None",
              value |-> <<PercevalExperiment(r4.value[1], r3.self.photons)>>]

-----------------------------------------------------------------------------
(* The builder session: any sequence of calls on one constructor. *)

Outcome(op, raised, value) == [op |-> op, raised |-> raised, value |-> value]

\* The outcomes kept in the history: the two methods the later ones wait for,
\* and the one failure of add_cluster that comes after its loop.
Tracked ==
    {<<"add_fusions", "None">>, <<"apply_local_clifford", "None">>,
     <<"add_cluster", "TypeError">>}

Record(op, raised) ==
    IF <<op, raised>> \in Tracked THEN history \cup {<<op, raised>>} ELSE history

Completed(op) == <<op, "None">> \in history

NoExperiment == [constructed |-> FALSE]

NoExtraction == [started |-> FALSE]

NoQuery ==
    [op |-> "none", format_result |-> FALSE, postselection |-> FALSE,
     ran |-> << >>, raw |-> << >>, result |-> << >>]

Init ==
    /\ pcc = NewConstructor
    /\ readouts \in Readouts
    /\ phasedict \in PhaseDicts
    /\ ret = Outcome("init", "None", << >>)
    /\ history = {}
    /\ exp = NoExperiment
    /\ qry = NoQuery
    /\ ext = NoExtraction

AddCluster ==
    \E cluster \in Clusters :
        LET r == add_cluster(pcc, cluster, phasedict, readouts)
        IN  /\ r.self.num_photons <= MaxPhotons
            /\ pcc' = r.self
            /\ ret' = Outcome("add_cluster", r.raised, << >>)
            /\ history' = Record("add_cluster", r.raised)
            /\ UNCHANGED <<readouts, phasedict, exp, qry, ext>>

AddFusions ==
    LET r == add_fusions(pcc)
    IN  /\ Len(r.self.fusion_pairs) <= MaxFusionPairs
        /\ pcc' = r.self
        /\ ret' = Outcome("add_fusions", r.raised, << >>)
        /\ history' = Record("add_fusions", r.raised)
        /\ UNCHANGED <<readouts, phasedict, exp, qry, ext>>

\* apply_local_clifford called with one of the dicts of V
ApplyLocalCliffordOf(V) ==
    \E vops \in V :
        LET r == apply_local_clifford(pcc, vops)
        IN  /\ Len(r.self.clifford_comps) <= MaxCorrections
            /\ pcc' = r.self
            /\ ret' = Outcome("apply_local_clifford", r.raised, << >>)
            /\ history' = Record("apply_local_clifford", r.raised)
            /\ UNCHANGED <<readouts, phasedict, exp, qry, ext>>

ApplyLocalClifford == ApplyLocalCliffordOf(Vops)

\* A network has at least one mode: the call is made on an empty builder
\* only where it is rejected before the network is created.
SetupPercevalCircuit ==
    LET r == setup_perceval_circuit(pcc)
    IN  /\ r.raised = "None" => pcc.num_photons >= 1
        /\ ret' = Outcome("setup_perceval_circuit", r.raised, r.value)
        /\ UNCHANGED <<pcc, readouts, phasedict, history, exp, qry, ext>>

Next ==
    \/ AddCluster
    \/ AddFusions
    \/ ApplyLocalClifford
    \/ SetupPercevalCircuit

Spec == Init /\ [][Next]_vars

-----------------------------------------------------------------------------
(* The experiment session: an experiment returned by to_perceval, and any *)
(* sequence of calls on it.                                               *)

\* The clusters that the decomposition of a pattern's graph hands to
\* to_perceval: a cluster of fewer than 4 nodes is always a GHZ cluster.
ExtractedClusters == {c \in Clusters : Len(c.nodes) < 4 => c.type = "GHZ"}

\* The sequences of clusters of C of at most n photons in all.
RECURSIVE ClusterSeqs(_, _)
ClusterSeqs(C, n) ==
    {<< >>} \cup
    UNION {{<<c>> \o s : s \in ClusterSeqs(C, n - Len(c.nodes))} :
              c \in {d \in C : Len(d.nodes) <= n}}

LocalBackends == {"SLOS"}

RemoteBackends == {"sim:ascella"}

\* The designated output nodes of the patterns the experiments come from.
ExpReadouts == {{0}, NodeIds}

ExpInit ==
    /\ pcc = NewConstructor
    /\ readouts \in ExpReadouts
    /\ phasedict \in PhaseDicts
    /\ ret = Outcome("to_perceval", "None", << >>)
    /\ history = {}
    /\ qry = NoQuery
    /\ ext = NoExtraction
    /\ \E clusters \in ClusterSeqs(ExtractedClusters, MaxPhotons) \ {<< >>} :
       \E vops \in {v \in Vops : Len(v) = 0} :
           LET r == to_perceval(clusters, phasedict, readouts, vops)
           IN  /\ r.raised = "None"
               /\ exp = r.value[1]

ExpCall(op, r) ==
    /\ exp' = r.self
    /\ ret' = Outcome(op, r.raised, << >>)
    /\ UNCHANGED <<pcc, readouts, phasedict, history, ext>>

SetLocalProcessor ==
    \E backend \in LocalBackends :
        /\ ExpCall("set_local_processor", set_local_processor(exp, backend))
        /\ UNCHANGED qry

SetRemoteProcessor ==
    \E backend \in RemoteBackends :
        /\ ExpCall("set_remote_processor", set_remote_processor(exp, backend))
        /\ UNCHANGED qry

SetInputState ==
    /\ ExpCall("set_input_state", set_input_state(exp))
    /\ UNCHANGED qry

SetOutputStates ==
    /\ ExpCall("set_output_states", set_output_states(exp))
    /\ UNCHANGED qry

\* qry keeps what the backend ran under, the raw results it returned and the
\* result handed back to the caller.
RunQuery(op) ==
    \E format_result, postselection \in BOOLEAN :
        LET r == Query(exp, postselection)
        IN  /\ ExpCall(op, r)
            /\ IF r.raised /= "None" THEN qry' = qry
               ELSE \E raw \in RawResults(r.self) :
                        qry' = [op |-> op, format_result |-> format_result,
                                postselection |-> postselection, ran |-> r.ran,
                                raw |-> raw,
                                result |-> IF format_result
                                           THEN replace_keys(raw, r.self.output_states[1])
                                           ELSE raw]

GetProbabilityDistribution == RunQuery("get_probability_distribution")

Sample == RunQuery("sample")

ExpNext ==
    \/ SetLocalProcessor
    \/ SetRemoteProcessor
    \/ SetInputState
    \/ SetOutputStates
    \/ GetProbabilityDistribution
    \/ Sample

ExpSpec == ExpInit /\ [][ExpNext]_vars

-----------------------------------------------------------------------------
(* Either session: one on a new constructor, or one on an experiment that *)
(* to_perceval returned.                                                  *)

SessionInit == Init \/ ExpInit

BuilderStep == exp = NoExperiment /\ Next

ExperimentStep == exp /= NoExperiment /\ ExpNext

SessionNext == BuilderStep \/ ExperimentStep

SessionSpec == SessionInit /\ [][SessionNext]_vars

-----------------------------------------------------------------------------
(* extraction.py: extract_clusters_from_graph, the Cluster Decomposer of   *)
(* the specification (section 4.1).  A graph is [nodes, edges], an edge a  *)
(* set of two nodes; a cluster is [type, nodes, edges], nodes the nodes of *)
(* its graph in order.  Where the specification leaves the order of the    *)
(* work open (which hub, which end of a chain, where a cycle is cut) every *)
(* order is a behaviour.                                                   *)

MaxNodes == 5
MaxEdges == 5

Pairs(n) == {e \in SUBSET (0..(n - 1)) : Cardinality(e) = 2}

Graphs ==
    UNION {{[nodes |-> 0..(n - 1), edges |-> E] :
               E \in {F \in SUBSET Pairs(n) : Cardinality(F) <= MaxEdges}} :
           n \in 1..MaxNodes}

Neighbors(E, v) == {w \in UNION E : w /= v /\ {v, w} \in E}

Degree(E, v) == Cardinality(Neighbors(E, v))

RECURSIVE AscSeq(_)
\* The elements of a set of integers, in ascending order.
AscSeq(S) ==
    IF S = {} THEN << >>
    ELSE LET m == CHOOSE x \in S : \A y \in S : x <= y
         IN  <<m>> \o AscSeq(S \ {m})

Cluster(type, nodes, edges) == [type |-> type, nodes |-> nodes, edges |-> edges]

\* The size rule: a pattern of fewer than 4 nodes is a GHZ cluster.
SizedType(type, nodes) == IF Len(nodes) < 4 THEN "GHZ" ELSE type

\* The star of a hub: the hub, its neighbours and its incident edges.
Star(E, v) ==
    LET nodes == <<v>> \o AscSeq(Neighbors(E, v))
    IN  Cluster(SizedType("GHZ", nodes), nodes, {{v, w} : w \in Neighbors(E, v)})

RECURSIVE Walk(_, _, _)
\* The maximal simple path from v along the edges of E, its edges consumed.
Walk(E, v, path) ==
    IF Neighbors(E, v) = {} THEN path
    ELSE LET w == CHOOSE x \in Neighbors(E, v) : TRUE
         IN  Walk(E \ {{v, w}}, w, Append(path, w))

PathEdges(path) == {{path[i], path[i + 1]} : i \in 1..(Len(path) - 1)}

\* A mutant of Chain: a chain is LINEAR whatever its size.
ChainAlwaysLinear(E, v) ==
    LET nodes == Walk(E, v, <<v>>)
    IN  Cluster("LINEAR", nodes, PathEdges(nodes))

\* The chain that starts at the end v.
Chain(E, v) ==
    LET nodes == Walk(E, v, <<v>>)
    IN  Cluster(SizedType("LINEAR", nodes), nodes, PathEdges(nodes))

\* A mutant of Cut: the cut takes one edge of the cycle only, the second
\* edge at v belongs to no cluster.
CutOneEdge(E, v) ==
    LET ns == AscSeq(Neighbors(E, v))
    IN  Cluster("GHZ", <<v, ns[1], ns[2]>>, {{v, ns[1]}})

\* A mutant of Cut: the cut closes its cluster with an edge between the two
\* neighbours of v.
CutClosed(E, v) ==
    LET ns == AscSeq(Neighbors(E, v))
    IN  Cluster("GHZ", <<v, ns[1], ns[2]>>,
                {{v, ns[1]}, {v, ns[2]}, {ns[1], ns[2]}})

\* The cut of a pure cycle at v: v and its two neighbours, which are then
\* the ends of the chain that is left and belong to both clusters.
Cut(E, v) ==
    LET ns == AscSeq(Neighbors(E, v))
    IN  Cluster("GHZ", <<v, ns[1], ns[2]>>, {{v, ns[1]}, {v, ns[2]}})

Hubs(E) == {v \in UNION E : Degree(E, v) >= 3}

Ends(E) == {v \in UNION E : Degree(E, v) = 1}

Emit(cluster) ==
    /\ ext' = [ext EXCEPT !.clusters = Append(@, cluster),
                          !.rest = @ \ cluster.edges,
                          !.pending = @ \ Range(cluster.nodes)]
    /\ UNCHANGED <<pcc, readouts, phasedict, ret, history, exp, qry>>

ExtInit ==
    /\ pcc = NewConstructor
    /\ readouts \in Readouts
    /\ phasedict \in PhaseDicts
    /\ ret = Outcome("init", "None", << >>)
    /\ history = {}
    /\ exp = NoExperiment
    /\ qry = NoQuery
    /\ \E g \in Graphs :
           ext = [started |-> TRUE, graph |-> g, rest |-> g.edges,
                  clusters |-> << >>,
                  pending |-> {v \in g.nodes : Degree(g.edges, v) = 0}]

\* An isolated node is a cluster of its own.
ExtractIsolated ==
    /\ ext.pending /= {}
    /\ \E v \in ext.pending :
           /\ \A w \in ext.pending : v <= w
           /\ Emit(Cluster(SizedType("GHZ", <<v>>), <<v>>, {}))

ExtractHub ==
    /\ ext.pending = {}
    /\ \E v \in Hubs(ext.rest) : Emit(Star(ext.rest, v))

ExtractChain ==
    /\ ext.pending = {}
    /\ Hubs(ext.rest) = {}
    /\ \E v \in Ends(ext.rest) : Emit(Chain(ext.rest, v))

CutCycle ==
    /\ ext.pending = {}
    /\ Hubs(ext.rest) = {}
    /\ Ends(ext.rest) = {}
    /\ \E v \in UNION ext.rest : Emit(Cut(ext.rest, v))

Extracted == ext.pending = {} /\ ext.rest = {}

\* to_perceval: the clusters are registered in order, then fused.
RegisterClusters ==
    /\ Extracted
    /\ ~pcc.is_fused
    /\ LET r == AddClusters(NewConstructor, ext.clusters, phasedict, readouts)
       IN  /\ r.raised = "None"
           /\ pcc' = add_fusions(r.self).self
    /\ ret' = Outcome("add_fusions", "None", << >>)
    /\ history' = Record("add_fusions", "None")
    /\ UNCHANGED <<readouts, phasedict, exp, qry, ext>>

ExtNext ==
    \/ ExtractIsolated
    \/ ExtractHub
    \/ ExtractChain
    \/ CutCycle
    \/ RegisterClusters

ExtSpec == ExtInit /\ [][ExtNext]_vars

-----------------------------------------------------------------------------
(* The correction session: the lookups of the Clifford tables and the    *)
(* corrections of a fused builder, with any index.                        *)

CliffordMargin == 2

\* The indices tried: those of the tables, and some on either side.
CliffordRange == (0 - CliffordMargin)..(Len(CLIFFORD_CONJ) - 1 + CliffordMargin)

\* vops with one entry: any node, any index tried
WideVops == {<< <<n, c>> >> : n \in NodeIds, c \in CliffordRange}

\* A builder with two clusters of node 0 alone, fused: one photon to
\* correct and one witness; node 1 is not registered.
CorrectionInit ==
    /\ readouts \in Readouts
    /\ phasedict \in PhaseDicts
    /\ LET r == AddClusters(NewConstructor,
                            <<[type |-> "GHZ", nodes |-> <<0>>],
                              [type |-> "GHZ", nodes |-> <<0>>]>>,
                            phasedict, readouts)
       IN  pcc = add_fusions(r.self).self
    /\ ret = Outcome("add_fusions", "None", << >>)
    /\ history = {<<"add_fusions", "None">>}
    /\ exp = NoExperiment
    /\ qry = NoQuery
    /\ ext = NoExtraction

Lookup(op, raised, value) ==
    /\ ret' = Outcome(op, raised, value)
    /\ UNCHANGED <<pcc, readouts, phasedict, history, exp, qry, ext>>

\* local_clifford_circuit(cid): the index and, if any, the circuit returned
LocalCliffordCircuit ==
    \E cid \in CliffordRange :
        LET r == local_clifford_circuit(cid)
        IN  Lookup("local_clifford_circuit", r.raised, <<cid>> \o r.value)

\* CLIFFORD_CONJ[i]
Conjugate ==
    \E i \in 0..(Len(CLIFFORD_CONJ) - 1) :
        Lookup("CLIFFORD_CONJ", "None", <<i, CLIFFORD_CONJ[i + 1]>>)

\* CLIFFORD_TO_PERCEVAL_BS[idx]
RailForm ==
    \E idx \in 0..(Len(CLIFFORD_TO_PERCEVAL_BS) - 1) :
        Lookup("CLIFFORD_TO_PERCEVAL_BS", "None",
               <<idx, CLIFFORD_TO_PERCEVAL_BS[idx + 1]>>)

ApplyAnyClifford == ApplyLocalCliffordOf(WideVops)

CorrectionNext ==
    \/ LocalCliffordCircuit
    \/ Conjugate
    \/ RailForm
    \/ ApplyAnyClifford
    \/ SetupPercevalCircuit

CorrectionSpec == CorrectionInit /\ [][CorrectionNext]_vars

-----------------------------------------------------------------------------
(* The assembly session: a fused builder with a wide first cluster and a  *)
(* second cluster on nodes of the first, the corrections applied to it,   *)
(* its network, and the sub-circuit generators called on their own.       *)

MaxWidth == 5
MaxApplied == 2

\* The nodes of the first cluster.
WideNodes == range(0, MaxWidth - 1)

\* Clifford indices: one inside [0, 23] and one outside.
AssemblyCliffordIds == {7, 24}

\* vops of one or two entries, on the first node, on the last node of the
\* first cluster or on a node that is not registered.
AssemblyVops ==
    {v \in UNION {[1..n -> {0, MaxWidth - 2, MaxWidth - 1} \X AssemblyCliffordIds] :
                     n \in 1..2} :
        \A i, j \in 1..Len(v) : i < j => v[i][1] /= v[j][1]}

AssemblyInit ==
    /\ readouts \in Readouts
    /\ phasedict \in PhaseDicts
    /\ \E second \in {s \in DistinctSeqs(Range(WideNodes), 2) : Len(s) >= 1} :
           LET r == AddClusters(NewConstructor,
                                <<[type |-> "LINEAR", nodes |-> WideNodes],
                                  [type |-> "GHZ", nodes |-> second]>>,
                                phasedict, readouts)
           IN  pcc = add_fusions(r.self).self
    /\ ret = Outcome("add_fusions", "None", << >>)
    /\ history = {<<"add_fusions", "None">>}
    /\ exp = NoExperiment
    /\ qry = NoQuery
    /\ ext = NoExtraction

\* apply_local_clifford(vops), vops kept with the outcome
ApplyCorrections ==
    \E vops \in AssemblyVops :
        LET r == apply_local_clifford(pcc, vops)
        IN  /\ Len(r.self.clifford_comps) <= MaxApplied
            /\ pcc' = r.self
            /\ ret' = Outcome("apply_local_clifford", r.raised, <<vops>>)
            /\ history' = Record("apply_local_clifford", r.raised)
            /\ UNCHANGED <<readouts, phasedict, exp, qry, ext>>

\* linear_circuit(n)
LinearCircuit ==
    \E n \in 1..MaxWidth :
        Lookup("linear_circuit", "None", <<n, linear_circuit(n)>>)

\* fusion_circuit(ph1, ph2) on two photons of the builder, the lower id
\* first, or a witness first
FusionCircuit ==
    \E i, j \in 1..Len(pcc.photons) :
        /\ i < j \/ (i > j /\ pcc.photons[i].type = "WITNESS")
        /\ LET r == fusion_circuit(pcc.photons[i], pcc.photons[j])
           IN  Lookup("fusion_circuit", r.raised,
                      <<pcc.photons[i], pcc.photons[j]>> \o r.value)

AssemblyNext ==
    \/ ApplyCorrections
    \/ LinearCircuit
    \/ FusionCircuit
    \/ SetupPercevalCircuit

AssemblySpec == AssemblyInit /\ [][AssemblyNext]_vars

-----------------------------------------------------------------------------
(* The unitaries of the components.  Every angle of the tables is a        *)
(* multiple of pi/8 that enters its matrix through z = exp(i pi/4): a      *)
(* number is <<a, b, c, d>>, standing for a + b z + c z^2 + d z^3 with      *)
(* z^4 = -1, and a matrix is <<<<m11, m12>>, <<m21, m22>>>>.  The matrix   *)
(* of a component is kept up to a positive real factor: 2 for a BS, 4 for *)
(* a WP, sqrt(2) for the Hadamard gate.                                    *)

CZero == <<0, 0, 0, 0>>

COne == <<1, 0, 0, 0>>

CAdd(x, y) == [k \in 1..4 |-> x[k] + y[k]]

CSub(x, y) == [k \in 1..4 |-> x[k] - y[k]]

CMul(x, y) ==
    <<x[1] * y[1] - x[2] * y[4] - x[3] * y[3] - x[4] * y[2],
      x[1] * y[2] + x[2] * y[1] - x[3] * y[4] - x[4] * y[3],
      x[1] * y[3] + x[2] * y[2] + x[3] * y[1] - x[4] * y[4],
      x[1] * y[4] + x[2] * y[3] + x[3] * y[2] + x[4] * y[1]>>

\* exp(i k pi/4)
ZPow(k) ==
    LET r == k % 8
    IN  [j \in 1..4 |-> IF j = (r % 4) + 1 THEN (IF r < 4 THEN 1 ELSE -1) ELSE 0]

\* 2 cos(k pi/4) and 2i sin(k pi/4)
Cos2(k) == CAdd(ZPow(k), ZPow(0 - k))

ISin2(k) == CSub(ZPow(k), ZPow(0 - k))

MMul(A, B) ==
    [i \in 1..2 |-> [j \in 1..2 |->
        CAdd(CMul(A[i][1], B[1][j]), CMul(A[i][2], B[2][j]))]]

MIdentity == <<<<COne, CZero>>, <<CZero, COne>>>>

\* perceval: the unitary of a BS (Rx convention), of a WP and of a PS on a
\* polarised mode.
Unitary(c) ==
    IF c.name = "BS"
    THEN LET t  == c.args[1] \div 4
             tl == c.args[2] \div 2
             bl == c.args[3] \div 2
             tr == c.args[4] \div 2
             br == c.args[5] \div 2
         IN  <<<<CMul(ZPow(tl + tr), Cos2(t)), CMul(ZPow(tr + bl), ISin2(t))>>,
               <<CMul(ZPow(tl + br), ISin2(t)), CMul(ZPow(br + bl), Cos2(t))>>>>
    ELSE IF c.name = "WP"
    THEN LET d   == c.args[1] \div 2
             x   == c.args[2]
             re  == CAdd(Cos2(d), Cos2(d))
             im  == CMul(ISin2(d), Cos2(x))
             off == CMul(ISin2(d), CMul(ZPow(6), ISin2(x)))
         IN  <<<<CAdd(re, im), off>>, <<off, CSub(re, im)>>>>
    ELSE <<<<ZPow(c.args[1] \div 2), CZero>>, <<CZero, ZPow(c.args[1] \div 2)>>>>

RECURSIVE Compose(_)
\* circ.U of a circuit that holds the components of row on its modes: the
\* component added first acts first.
Compose(row) ==
    IF row = << >> THEN MIdentity
    ELSE MMul(Compose(Tail(row)), Unitary(row[1]))

\* graphix.clifford: the gates that the reference operators are made of
Gate(name) ==
    CASE name = "id"  -> MIdentity
      [] name = "x"   -> <<<<CZero, COne>>, <<COne, CZero>>>>
      [] name = "y"   -> <<<<CZero, ZPow(6)>>, <<ZPow(2), CZero>>>>
      [] name = "z"   -> <<<<COne, CZero>>, <<CZero, ZPow(4)>>>>
      [] name = "s"   -> <<<<COne, CZero>>, <<CZero, ZPow(2)>>>>
      [] name = "sdg" -> <<<<COne, CZero>>, <<CZero, ZPow(6)>>>>
      [] name = "h"   -> <<<<COne, COne>>, <<COne, ZPow(4)>>>>

\* graphix.clifford: the reference operator of every index as a sequence of
\* gates, the first gate acting first; it gives the operator up to a phase.
CLIFFORD_GATES ==
    <<<<"id">>, <<"x">>, <<"y">>, <<"z">>, <<"s">>, <<"sdg">>, <<"h">>,
      <<"sdg", "h", "sdg">>, <<"h", "x">>, <<"sdg", "y">>, <<"sdg", "x">>,
      <<"h", "y">>, <<"h", "z">>, <<"sdg", "h", "sdg", "y">>,
      <<"sdg", "h", "s">>, <<"sdg", "h", "sdg", "x">>, <<"sdg", "h">>,
      <<"sdg", "h", "y">>, <<"sdg", "h", "z">>, <<"sdg", "h", "x">>,
      <<"h", "s">>, <<"h", "sdg">>, <<"h", "x", "sdg">>, <<"h", "x", "s">>>>

RECURSIVE Gates(_)
Gates(names) ==
    IF names = << >> THEN MIdentity
    ELSE MMul(Gates(Tail(names)), Gate(names[1]))

\* CLIFFORD[idx], up to a phase and a positive factor
CLIFFORD(idx) == Gates(CLIFFORD_GATES[idx + 1])

-----------------------------------------------------------------------------
(* experiment.py: PhotonCount and PhotonDistribution.  A result is         *)
(* [kind, counts, base], counts the dict the object keeps (self.counts or *)
(* self.distribution).  A key handed to a method is [str, val]: str tells *)
(* whether it is a string, val what it reads as.  A value is [type, v].   *)

\* A result object: the entries it keeps in self.counts (self.distribution)
\* and, in base, the entries of the dict it inherits from, which
\* super().__init__() leaves empty.
Result(kind, counts) == [kind |-> kind, counts |-> counts, base |-> << >>]

Key(str, val) == [str |-> str, val |-> val]

Value(type, v) == [type |-> type, v |-> v]

\* A mutant of getitem: a key that is missing reads as 0, the way it does in
\* a collections.Counter.
getitem_default(self, key) ==
    IF ~key.str
    THEN [self |-> self, raised |-> "TypeError", value |-> << >>]
    ELSE IF ~DictHas(self.counts, key.val)
    THEN [self |-> self, raised |-> "None", value |-> <<0>>]
    ELSE [self |-> self, raised |-> "None",
          value |-> <<DictGet(self.counts, key.val)>>]

\* PhotonCount.__getitem__ and PhotonDistribution.__getitem__
getitem(self, key) ==
    IF ~key.str
    THEN [self |-> self, raised |-> "TypeError", value |-> << >>]
    ELSE IF ~DictHas(self.counts, key.val)
    THEN [self |-> self, raised |-> "KeyError", value |-> << >>]
    ELSE [self |-> self, raised |-> "None",
          value |-> <<DictGet(self.counts, key.val)>>]

\* PhotonCount.items and PhotonDistribution.items
items(self) == self.counts

\* keys(), inherited from dict: the keys of the entries of the base
keys(self) == [i \in 1..Len(self.base) |-> self.base[i].key]

\* key in self, inherited from dict
contains(self, key) == DictHas(self.base, key.val)

\* len(self), inherited from dict
len(self) == Len(self.base)

\* PhotonCount.__setitem__ and PhotonDistribution.__setitem__
setitem(self, key, value) ==
    IF ~key.str
    THEN [self |-> self, raised |-> "TypeError"]
    ELSE IF self.kind = "PhotonCount" /\ ~(value.type = "int" /\ value.v >= 0)
    THEN [self |-> self, raised |-> "TypeError"]
    ELSE IF self.kind = "PhotonDistribution" /\ value.type /= "float"
    THEN [self |-> self, raised |-> "TypeError"]
    ELSE [self |-> [self EXCEPT !.counts = DictSet(@, key.val, value.v)],
          raised |-> "None"]

-----------------------------------------------------------------------------
(* The result session: the result of one formatted query on a bound        *)
(* experiment, and any sequence of lookups and assignments on it.          *)

MaxResultPhotons == 2
MaxEntries == 1

\* sample returns a PhotonCount, get_probability_distribution a
\* PhotonDistribution.
ResultOf(q) ==
    Result(IF q.op = "sample" THEN "PhotonCount" ELSE "PhotonDistribution",
           q.result)

ResultInit ==
    /\ pcc = NewConstructor
    /\ readouts \in ExpReadouts
    /\ phasedict \in PhaseDicts
    /\ history = {}
    /\ ext = NoExtraction
    /\ \E clusters \in ClusterSeqs(ExtractedClusters, MaxResultPhotons) \ {<< >>} :
       \E backend \in LocalBackends :
       \E op \in {"get_probability_distribution", "sample"} :
       \E r \in {to_perceval(clusters, phasedict, readouts, << >>)} :
       \E b \in {set_local_processor(r.value[1], backend)} :
       \E q \in {Query(b.self, TRUE)} :
           /\ r.raised = "None"
           /\ exp = q.self
           /\ ret = Outcome(op, "None", << >>)
           /\ \E raw \in RawResults(q.self) :
                  qry = [op |-> op, format_result |-> TRUE,
                         postselection |-> TRUE, ran |-> q.ran, raw |-> raw,
                         result |-> replace_keys(raw, q.self.output_states[1])]

\* The keys tried: every label of the output-label map and one full-mode
\* outcome, each as a string and as an object that is not a string.
ResultKeys ==
    LET out == exp.output_states[1]
    IN  {Key(s, v) : s \in BOOLEAN, v \in {e.val : e \in Range(out)} \cup {out[1].key}}

\* The values tried: a count, a negative integer and a probability.
ResultValues == {Value("int", 3), Value("int", -1), Value("float", 3)}

ResultCall(op, r, value) ==
    /\ qry' = [qry EXCEPT !.result = r.self.counts]
    /\ ret' = Outcome(op, r.raised, value)
    /\ UNCHANGED <<pcc, readouts, phasedict, history, exp, ext>>

\* result[key]
GetItem ==
    \E key \in ResultKeys :
        LET r == getitem(ResultOf(qry), key)
        IN  ResultCall("__getitem__", r, <<key>> \o r.value)

\* result[key] = value
SetItem ==
    \E key \in ResultKeys, value \in ResultValues :
        LET r == setitem(ResultOf(qry), key, value)
        IN  /\ Len(r.self.counts) <= MaxEntries
            /\ ResultCall("__setitem__", r, <<key, value>>)

ResultNext ==
    \/ GetItem
    \/ SetItem

ResultSpec == ResultInit /\ [][ResultNext]_vars

-----------------------------------------------------------------------------
(* Properties of the builder *)

PhotonOf(id) == pcc.photons[id + 1]

Min(S) == CHOOSE x \in S : \A y \in S : x <= y

AllocatedRole(node_id) == IF node_id \in readouts THEN "READOUT" ELSE "COMPUTE"

\* C1: after add_fusions, of the k > 1 photons of a node exactly k - 1 are
\* WITNESS and the one with the lowest id has the role it was allocated with
\* (READOUT for an output node, COMPUTE otherwise); so at most one photon of
\* any node is not a witness.
C1_FusionPromotion ==
    Completed("add_fusions") =>
        \A e \in Range(pcc.node_id2photon_ids) :
            LET ids == Range(e.val)
                k   == Cardinality(ids)
                w   == {i \in ids : PhotonOf(i).type = "WITNESS"}
            IN  /\ k = Len(e.val)
                /\ k > 1 => /\ Cardinality(w) = k - 1
                            /\ PhotonOf(Min(ids)).type = AllocatedRole(e.key)
                /\ Cardinality(ids \ w) <= 1

\* A fused builder with a node that three clusters share.
C1_Witness ==
    /\ Completed("add_fusions")
    /\ \E e \in Range(pcc.node_id2photon_ids) : Len(e.val) = 3

Registry(self) ==
    <<self.photons, self.num_photons, self.node_id2photon_ids, self.clusters,
      self.fusion_pairs>>

\* C2: once add_fusions has run, every add_cluster call raises and leaves the
\* photon list, the photon count, the node-to-photon map, the cluster list
\* and the fusion-pair list as they were.
C2_NoClusterAfterFusion ==
    [][(Completed("add_fusions") /\ ret'.op = "add_cluster") =>
           /\ ret'.raised /= "None"
           /\ Registry(pcc') = Registry(pcc)]_vars

\* An add_cluster call rejected on a fused builder that holds photons.
C2_Witness ==
    /\ Completed("add_fusions")
    /\ ret.op = "add_cluster"
    /\ ret.raised = "RuntimeError"
    /\ pcc.num_photons > 0

\* C3: setup_perceval_circuit succeeds only after add_fusions and
\* apply_local_clifford have both completed, apply_local_clifford only after
\* add_fusions has; a call made out of order raises, returns no network and
\* changes nothing of the builder.
C3_CallOrder ==
    [][/\ ret'.op = "setup_perceval_circuit" =>
            IF Completed("add_fusions") /\ Completed("apply_local_clifford")
            THEN TRUE
            ELSE ret'.raised /= "None" /\ ret'.value = << >> /\ pcc' = pcc
       /\ ret'.op = "apply_local_clifford" =>
            IF Completed("add_fusions")
            THEN TRUE
            ELSE ret'.raised /= "None" /\ ret'.value = << >> /\ pcc' = pcc]_vars

\* setup_perceval_circuit rejected on a fused builder whose corrections have
\* not been applied.
C3_Witness ==
    /\ ret.op = "setup_perceval_circuit"
    /\ ret.raised = "RuntimeError"
    /\ Completed("add_fusions")
    /\ ~Completed("apply_local_clifford")
    /\ pcc.num_photons > 0

\* C4: the network of setup_perceval_circuit has its elements in stage order:
\* the cluster sub-circuits in registration order, a barrier, the fusion
\* sub-circuits in the order of the fusion pairs, a barrier, the corrections,
\* a barrier, the basis rotations, then the conversion permutation and one
\* splitter per photon; no element of a later stage precedes one of an
\* earlier stage.
C4_StageOrder ==
    (ret.op = "setup_perceval_circuit" /\ ret.raised = "None") =>
        LET net   == ret.value[1].elems
            at(k) == SelectSeq(net, LAMBDA e : e.stage = k)
        IN  /\ \A i, j \in 1..Len(net) : i < j => net[i].stage <= net[j].stage
            /\ \A i \in 1..Len(net) : net[i].stage \in 1..8
            /\ Len(at(1)) = Len(pcc.clusters)
            /\ \A j \in 1..Len(pcc.clusters) :
                   /\ at(1)[j].comp.name = pcc.clusters[j].type
                   /\ at(1)[j].comp.m = Len(pcc.clusters[j].nodes)
            /\ Len(at(3)) = Len(pcc.fusion_pairs)
            /\ \A j \in 1..Len(pcc.fusion_pairs) :
                   /\ at(3)[j].comp.name = "FUSE"
                   /\ at(3)[j].comp.args = pcc.fusion_pairs[j]
            /\ \A k \in {2, 4, 6} : Len(at(k)) = 1 /\ at(k)[1].comp.name = "PERM"
            /\ Len(at(5)) = Len(pcc.clifford_comps)
            /\ \A e \in Range(at(5)) : e.comp.name = "LOCAL CLIFFORD ID"
            /\ \A e \in Range(at(7)) : e.comp.name \in {"QWP", "HWP"}
            /\ Len(at(8)) = pcc.num_photons + 1
            /\ at(8)[1].comp.name = "PERM"
            /\ \A j \in 2..Len(at(8)) : at(8)[j].comp.name = "PBS"

\* A network with two clusters, a fusion, a correction and a basis rotation.
C4_Witness ==
    /\ ret.op = "setup_perceval_circuit"
    /\ ret.raised = "None"
    /\ Len(pcc.clusters) >= 2
    /\ Len(pcc.fusion_pairs) >= 1
    /\ Len(pcc.clifford_comps) >= 1
    /\ \E ph \in Range(pcc.photons) : ph.type = "COMPUTE"

\* C5: a query made with postselection=False runs with no postselection
\* constraint installed on the backend, whatever the earlier queries were.
C5_PostselectionPerQuery ==
    (qry.op /= "none" /\ ~qry.postselection) => qry.ran = << >>

\* The dual-rail pair that photon id p reads in a full-mode outcome.
Rail(key, p) == <<key[2 * p + 1], key[2 * p + 2]>>

\* The label bits of an outcome: one per readout photon, lowest id first.
LabelBits(self, key) ==
    LET rs == get_readout_photons(self)
    IN  [i \in 1..Len(rs) |-> IF Rail(key, rs[i].id) = <<1, 0>> THEN 1 ELSE 0]

\* The output-label map but for its labels: 2^R entries, every key reads
\* (0,1) on a WITNESS or COMPUTE photon and (0,1) or (1,0) on a READOUT one,
\* and the keys are pairwise distinct.
OutputKeys(self) ==
    LET out == self.output_states[1]
        n   == Len(self.photons)
    IN  /\ Len(out) = 2 ^ Len(get_readout_photons(self))
        /\ \A e \in Range(out) :
               /\ Len(e.key) = 2 * n
               /\ \A ph \in Range(self.photons) :
                      IF ph.type \in {"WITNESS", "COMPUTE"}
                      THEN Rail(e.key, ph.id) = <<0, 1>>
                      ELSE Rail(e.key, ph.id) \in {<<0, 1>>, <<1, 0>>}
        /\ \A i, j \in 1..Len(out) :
               i /= j => out[i].key /= out[j].key /\ out[i].val /= out[j].val

\* C6 as stated: for every R >= 0 the label of a key is the R-bit label of
\* its readout photons, big-endian.
C6_LabelsOfEveryWidth ==
    exp.output_states /= << >> =>
        /\ OutputKeys(exp)
        /\ \A e \in Range(exp.output_states[1]) : e.val = LabelBits(exp, e.key)

\* C6, amended: the map has 2^R entries with the keys as stated; for R >= 1
\* the label of a key is the R-bit label of its readout photons, big-endian
\* with the lowest-id READOUT photon first, and for R = 0 the one label is
\* the single digit 0.
C6_OutputLabels ==
    exp.output_states /= << >> =>
        /\ OutputKeys(exp)
        /\ \A e \in Range(exp.output_states[1]) :
               e.val = IF get_readout_photons(exp) = << >>
                       THEN <<0>>
                       ELSE LabelBits(exp, e.key)

\* A bound experiment with two readout photons and one that is not.
C6_Witness ==
    /\ exp.output_states /= << >>
    /\ Len(get_readout_photons(exp)) = 2
    /\ Len(exp.photons) = 3

\* C7: the constraint of set_postselection requires (0, 1) on the modes
\* (2p, 2p+1) of every WITNESS and COMPUTE photon p and one count in all on
\* the two modes of every READOUT photon; every photon is covered by exactly
\* one of these conditions and the constraint holds nothing else.
C7_PostselectionConstraint ==
    (exp.processor /= << >> /\ exp.processor[1].postselect /= << >>) =>
        LET ps       == exp.processor[1].postselect[1]
            conds(p) == {i \in 1..Len(ps) :
                            Range(ps[i].modes) \cap {2 * p, 2 * p + 1} /= {}}
        IN  /\ \A ph \in Range(exp.photons) :
                   IF ph.type = "READOUT"
                   THEN /\ Cardinality(conds(ph.id)) = 1
                        /\ {ps[i] : i \in conds(ph.id)} =
                               {Eq(<<2 * ph.id, 2 * ph.id + 1>>, 1)}
                   ELSE /\ Cardinality(conds(ph.id)) = 2
                        /\ {ps[i] : i \in conds(ph.id)} =
                               {Eq(<<2 * ph.id>>, 0), Eq(<<2 * ph.id + 1>>, 1)}
            /\ \A i \in 1..Len(ps) : \E ph \in Range(exp.photons) : i \in conds(ph.id)

\* A constraint installed over a readout, a compute and a witness photon.
C7_Witness ==
    /\ exp.processor /= << >>
    /\ exp.processor[1].postselect /= << >>
    /\ {ph.type : ph \in Range(exp.photons)} = {"READOUT", "COMPUTE", "WITNESS"}

RECURSIVE Offset(_, _)
\* The number of nodes of the first j clusters.
Offset(clusters, j) ==
    IF j = 0 THEN 0 ELSE Offset(clusters, j - 1) + Len(clusters[j].nodes)

\* C8: while every add_cluster call has succeeded, the photon at position i
\* has id i, the photon count is the length of the list and the sum of the
\* clusters' node counts, and the photons of the j-th cluster are the block
\* of ids that follows those of the clusters before it.
C8_DenseIds ==
    <<"add_cluster", "TypeError">> \notin history =>
        /\ \A i \in 1..Len(pcc.photons) : pcc.photons[i].id = i - 1
        /\ pcc.num_photons = Len(pcc.photons)
        /\ pcc.num_photons = Offset(pcc.clusters, Len(pcc.clusters))
        /\ \A j \in 1..Len(pcc.clusters) :
               \A i \in 1..Len(pcc.clusters[j].nodes) :
                   LET pos == Offset(pcc.clusters, j - 1) + i
                   IN  /\ pos <= Len(pcc.photons)
                       /\ pcc.photons[pos].node_id = pcc.clusters[j].nodes[i]

\* Two clusters registered, the second one just now.
C8_Witness ==
    /\ <<"add_cluster", "TypeError">> \notin history
    /\ ret.op = "add_cluster"
    /\ ret.raised = "None"
    /\ Len(pcc.clusters) >= 2
    /\ pcc.num_photons = 3

\* C9: after add_fusions every fusion pair (a, b) joins two photons of one
\* node, a.id < b.id, consecutive among the ids of that node, b a WITNESS, and
\* a node with k photons contributes exactly k - 1 pairs.
C9_FusionPairs ==
    Completed("add_fusions") =>
        /\ \A pr \in Range(pcc.fusion_pairs) :
               LET a == PhotonOf(pr[1])
                   b == PhotonOf(pr[2])
               IN  /\ a.node_id = b.node_id
                   /\ a.id < b.id
                   /\ b.type = "WITNESS"
                   /\ ~\E c \in Range(pcc.photons) :
                          c.node_id = a.node_id /\ a.id < c.id /\ c.id < b.id
        /\ \A e \in Range(pcc.node_id2photon_ids) :
               Cardinality({i \in 1..Len(pcc.fusion_pairs) :
                               PhotonOf(pcc.fusion_pairs[i][1]).node_id = e.key})
                   = Len(e.val) - 1

\* C10: a failing call has no partial effect: when add_cluster raises for an
\* unsupported cluster type, or apply_local_clifford for an index out of range
\* or a node that is not registered, the photon list, the photon count, the
\* node-to-photon map, the cluster list and the correction list are as before.
C10_NoPartialSuccess ==
    [][(\/ ret'.op = "add_cluster" /\ ret'.raised = "TypeError"
        \/ ret'.op = "apply_local_clifford"
               /\ ret'.raised \in {"ValueError", "KeyError"}) =>
           /\ pcc'.photons = pcc.photons
           /\ pcc'.num_photons = pcc.num_photons
           /\ pcc'.node_id2photon_ids = pcc.node_id2photon_ids
           /\ pcc'.clusters = pcc.clusters
           /\ pcc'.clifford_comps = pcc.clifford_comps]_vars

-----------------------------------------------------------------------------
(* Properties of the formatted results *)

\* C11: in a result formatted through the output-label map, every entry is
\* the label of a raw outcome that is a key of the map, with the value of
\* that outcome; every raw outcome that is a key of the map appears so, the
\* others are dropped; so every label of the result is a value of the map.
C11_FormattedResult ==
    (qry.op /= "none" /\ qry.format_result) =>
        LET out    == exp.output_states[1]
            mapped == {i \in 1..Len(qry.raw) : DictHas(out, qry.raw[i].key)}
        IN  /\ \A e \in Range(qry.result) :
                   /\ \E m \in Range(out) : m.val = e.key
                   /\ \E i \in mapped :
                          /\ e.key = DictGet(out, qry.raw[i].key)
                          /\ e.val = qry.raw[i].val
            /\ \A i \in mapped :
                   \E e \in Range(qry.result) :
                       /\ e.key = DictGet(out, qry.raw[i].key)
                       /\ e.val = qry.raw[i].val
            /\ Len(qry.result) = Cardinality(mapped)

\* A formatted result of a raw result that holds an outcome of the map and
\* one that is not of the map.
C11_Witness ==
    /\ qry.op = "sample"
    /\ qry.format_result
    /\ Len(qry.raw) = 2
    /\ Len(qry.result) = 1
    /\ Len(exp.output_states[1]) = 4

-----------------------------------------------------------------------------
(* Properties of the experiment's binding *)

Unbound(self) ==
    /\ self.processor = << >>
    /\ self.input_state = << >>
    /\ self.output_states = << >>

\* C12: on an experiment with no backend bound, get_probability_distribution,
\* sample, set_input_state and set_output_states each raise, and the
\* processor, the input state and the output states stay unset.
C12_UnboundRaises ==
    [][(exp.processor = << >>
        /\ ret'.op \in {"get_probability_distribution", "sample",
                        "set_input_state", "set_output_states"}) =>
           /\ ret'.raised /= "None"
           /\ Unbound(exp)
           /\ Unbound(exp')
           /\ qry' = qry]_vars

\* set_output_states called, and rejected, before any backend is bound.
C12_Witness ==
    /\ ret.op = "set_output_states"
    /\ ret.raised = NoProcessor
    /\ exp.processor = << >>
    /\ qry = NoQuery

\* C13: a call of set_local_processor or set_remote_processor leaves the
\* experiment with the processor and the backend name of that call alone (a
\* new processor, with nothing of the one before), and derives the input
\* state and the output-label map again: on an experiment that was bound
\* before they are the ones it had.
C13_Rebinding ==
    [][ret'.op \in {"set_local_processor", "set_remote_processor"} =>
           /\ ret'.raised = "None"
           /\ exp'.processor /= << >>
           /\ exp'.processor[1].kind =
                  (IF ret'.op = "set_local_processor" THEN "local" ELSE "remote")
           /\ exp'.processor[1].backend \in
                  (IF ret'.op = "set_local_processor"
                   THEN LocalBackends ELSE RemoteBackends)
           /\ exp'.backend = <<exp'.processor[1].backend>>
           /\ exp'.processor[1].circ = exp.circ
           /\ exp'.processor[1].postselect = << >>
           /\ exp'.input_state /= << >>
           /\ exp'.processor[1].input = exp'.input_state
           /\ exp'.output_states /= << >>
           /\ exp.processor /= << >> =>
                  /\ exp'.input_state = exp.input_state
                  /\ exp'.output_states = exp.output_states
           /\ exp'.photons = exp.photons
           /\ exp'.circ = exp.circ]_vars

\* A remote backend bound to an experiment that ran a postselected query on
\* another backend.
C13_Witness ==
    /\ ret.op = "set_remote_processor"
    /\ qry.op /= "none"
    /\ qry.ran /= << >>
    /\ exp.processor[1].kind = "remote"
    /\ exp.processor[1].postselect = << >>

-----------------------------------------------------------------------------
(* Frame properties *)

\* A photon but for its role.
Identity(ph) == <<ph.id, ph.node_id, ph.angle>>

\* C14: a photon's role changes only inside add_fusions.  No call but
\* add_fusions changes a photon that exists, and add_fusions changes nothing
\* of it but the role; apply_local_clifford and setup_perceval_circuit leave
\* the photon list, the fusion-pair list, the cluster list and the
\* node-to-photon map as they were; and no call on an experiment (binding,
\* querying) changes its photon list.
C14_PhotonFrame ==
    [][/\ Len(pcc'.photons) >= Len(pcc.photons)
       /\ \A i \in 1..Len(pcc.photons) :
              /\ Identity(pcc'.photons[i]) = Identity(pcc.photons[i])
              /\ ret'.op /= "add_fusions" => pcc'.photons[i] = pcc.photons[i]
       /\ ret'.op \in {"apply_local_clifford", "setup_perceval_circuit"} =>
              /\ pcc'.photons = pcc.photons
              /\ pcc'.fusion_pairs = pcc.fusion_pairs
              /\ pcc'.clusters = pcc.clusters
              /\ pcc'.node_id2photon_ids = pcc.node_id2photon_ids
       /\ exp /= NoExperiment =>
              /\ exp' /= NoExperiment
              /\ exp'.photons = exp.photons]_vars

\* Corrections applied on a builder that holds a witness photon.
C14_Witness ==
    /\ ret.op = "apply_local_clifford"
    /\ ret.raised = "None"
    /\ Len(pcc.clifford_comps) >= 1
    /\ \E ph \in Range(pcc.photons) : ph.type = "WITNESS"

-----------------------------------------------------------------------------
(* Properties of the allocation *)

\* C15: a call of add_cluster on a builder that is not fused allocates one
\* photon per node of the cluster, in the order of its nodes, each READOUT if
\* its node is a designated output node and COMPUTE otherwise; and as long
\* as add_fusions has not run, every photon has the role it was allocated
\* with, so none is a WITNESS.
C15_Allocation ==
    [][/\ (ret'.op = "add_cluster" /\ ret'.raised /= "RuntimeError") =>
              LET new == SubSeq(pcc'.photons, Len(pcc.photons) + 1, Len(pcc'.photons))
              IN  /\ SubSeq(pcc'.photons, 1, Len(pcc.photons)) = pcc.photons
                  /\ Len(new) >= 1
                  /\ \A i, j \in 1..Len(new) : i /= j => new[i].node_id /= new[j].node_id
                  /\ \A i \in 1..Len(new) :
                         new[i].type = IF new[i].node_id \in readouts
                                       THEN "READOUT" ELSE "COMPUTE"
                  /\ ret'.raised = "None" =>
                         LET cluster == pcc'.clusters[Len(pcc'.clusters)]
                         IN  /\ Len(pcc'.clusters) = Len(pcc.clusters) + 1
                             /\ [i \in 1..Len(new) |-> new[i].node_id] = cluster.nodes
       /\ ~pcc'.is_fused =>
              \A ph \in Range(pcc'.photons) :
                  /\ ph.type /= "WITNESS"
                  /\ ph.type = "READOUT" <=> ph.node_id \in readouts]_vars

\* A cluster over an output node and a measured node registered on a builder
\* that already holds a photon of the output node.
C15_Witness ==
    /\ ret.op = "add_cluster"
    /\ ret.raised = "None"
    /\ ~pcc.is_fused
    /\ Len(pcc.clusters) = 2
    /\ Len(pcc.clusters[2].nodes) = 2
    /\ pcc.photons[1].node_id \in readouts

-----------------------------------------------------------------------------
(* Properties of the decomposition *)

ClustersOf(e) == {i \in 1..Len(ext.clusters) : e \in ext.clusters[i].edges}

\* C16: the clusters returned for a graph partition its edges: every edge of
\* the graph is an edge of exactly one cluster, and every edge of a cluster
\* is an edge of the graph, between two nodes of that cluster.
C16_EdgePartition ==
    (ext /= NoExtraction /\ Extracted) =>
        /\ \A e \in ext.graph.edges : Cardinality(ClustersOf(e)) = 1
        /\ \A c \in Range(ext.clusters) :
               /\ c.edges \subseteq ext.graph.edges
               /\ \A e \in c.edges : e \subseteq Range(c.nodes)

\* The decomposition of a graph with a hub whose leaves a chain connects.
C16_Witness ==
    /\ ext /= NoExtraction
    /\ Extracted
    /\ Cardinality(ext.graph.edges) = 5
    /\ Len(ext.clusters) = 2
    /\ \E v \in ext.graph.nodes : Degree(ext.graph.edges, v) = 3

RECURSIVE Component(_, _)
\* The nodes connected to one of S by edges of E.
Component(E, S) ==
    LET T == S \cup UNION {Neighbors(E, v) : v \in S}
    IN  IF T = S THEN S ELSE Component(E, T)

IsCycle(g, n) ==
    /\ Cardinality(g.nodes) = n
    /\ Cardinality(g.edges) = n
    /\ \A v \in g.nodes : Degree(g.edges, v) = 2
    /\ Component(g.edges, {0}) = g.nodes

\* C18: a 5-node cycle is returned as exactly two clusters, a GHZ cluster of
\* 3 nodes and a LINEAR cluster of 4 nodes; the two share exactly two node
\* ids, the two ends of the LINEAR cluster (7 node occurrences for 5 nodes);
\* and once the clusters are registered and fused there is exactly one
\* fusion pair for each of the two shared ids.
C18_FiveCycle ==
    (ext /= NoExtraction /\ Extracted /\ IsCycle(ext.graph, 5)) =>
        /\ Len(ext.clusters) = 2
        /\ \E i, j \in 1..2 :
               LET a == ext.clusters[i]
                   b == ext.clusters[j]
                   shared == Range(a.nodes) \cap Range(b.nodes)
               IN  /\ a.type = "GHZ" /\ Len(a.nodes) = 3
                   /\ b.type = "LINEAR" /\ Len(b.nodes) = 4
                   /\ Cardinality(shared) = 2
                   /\ shared = {b.nodes[1], b.nodes[4]}
                   /\ Range(a.nodes) \cup Range(b.nodes) = ext.graph.nodes
                   /\ pcc.is_fused =>
                          /\ Len(pcc.photons) = 7
                          /\ Len(pcc.fusion_pairs) = 2
                          /\ {pcc.photons[pr[1] + 1].node_id :
                                  pr \in Range(pcc.fusion_pairs)} = shared
                          /\ \A pr \in Range(pcc.fusion_pairs) :
                                 pcc.photons[pr[1] + 1].node_id =
                                     pcc.photons[pr[2] + 1].node_id

\* The clusters of a 5-node cycle, registered and fused.
C18_Witness ==
    /\ ext /= NoExtraction
    /\ Extracted
    /\ IsCycle(ext.graph, 5)
    /\ pcc.is_fused
    /\ Len(pcc.fusion_pairs) = 2

-----------------------------------------------------------------------------
(* Properties of the Clifford tables *)

\* C19: local_clifford_circuit returns a circuit, the operators of the
\* polarization table's entry in order on one mode, for every index of 0..23
\* and raises for every other index; the rail table and the polarization
\* table have exactly 24 entries each, none of them empty.
C19_LookupRange ==
    /\ ret.op = "local_clifford_circuit" =>
           LET cid == ret.value[1]
           IN  IF cid \in 0..23
               THEN /\ ret.raised = "None"
                    /\ Len(ret.value) = 2
                    /\ ret.value[2].m = 1
                    /\ Len(ret.value[2].comps) >= 1
                    /\ \A c \in Range(ret.value[2].comps) :
                           c.port = 0 /\ c.comp.name \in {"WP", "PS"}
               ELSE /\ ret.raised = "ValueError"
                    /\ Len(ret.value) = 1
    /\ Len(CLIFFORD_TO_PERCEVAL_BS) = 24
    /\ Len(CLIFFORD_TO_PERCEVAL_POLAR) = 24
    /\ \A i \in 1..24 :
           /\ CLIFFORD_TO_PERCEVAL_BS[i] /= << >>
           /\ CLIFFORD_TO_PERCEVAL_POLAR[i] /= << >>

\* The circuit of index 0, the first of the table.
C19_Witness ==
    /\ ret.op = "local_clifford_circuit"
    /\ ret.value[1] = 0
    /\ ret.raised = "None"
    /\ Len(ret.value[2].comps) = 1

\* C20: CLIFFORD_CONJ is a permutation of 0..23 and an involution: the
\* entry of index i is an index j of 0..23 whose own entry is i, and the
\* entry of index 0 is 0.
C20_ConjInvolution ==
    /\ ret.op = "CLIFFORD_CONJ" =>
           LET i == ret.value[1]
               j == ret.value[2]
           IN  /\ j \in 0..23
               /\ CLIFFORD_CONJ[j + 1] = i
               /\ i = 0 => j = 0
    /\ Len(CLIFFORD_CONJ) = 24
    /\ Range(CLIFFORD_CONJ) = 0..23

\* The entry of index 7, which is not its own conjugate.
C20_Witness ==
    /\ ret.op = "CLIFFORD_CONJ"
    /\ ret.value[1] = 7
    /\ ret.value[2] = 15

-----------------------------------------------------------------------------
(* Properties of the result objects *)

\* C21: a lookup with a key that is not a string raises TypeError, a lookup
\* with a string that is no key of the result raises KeyError; neither
\* returns a value, and the result is the same after the lookup as before.
C21_FailedLookup ==
    [][ret'.op = "__getitem__" =>
           LET key == ret'.value[1]
           IN  /\ qry' = qry
               /\ ~key.str => ret'.raised = "TypeError" /\ Len(ret'.value) = 1
               /\ (key.str /\ ~DictHas(qry.result, key.val)) =>
                      ret'.raised = "KeyError" /\ Len(ret'.value) = 1]_vars

\* A lookup of a label that a result with an entry does not hold.
C21_Witness ==
    /\ ret.op = "__getitem__"
    /\ ret.raised = "KeyError"
    /\ qry.result /= << >>

-----------------------------------------------------------------------------
(* Properties of the correction tables *)

\* A and B are the same operator up to a factor, and neither is zero.
SameOperator(A, B) ==
    /\ \A i, j, k, l \in 1..2 : CMul(A[i][j], B[k][l]) = CMul(A[k][l], B[i][j])
    /\ \E i, j \in 1..2 : A[i][j] /= CZero
    /\ \E i, j \in 1..2 : B[i][j] /= CZero

\* The operators that a circuit holds, in the order they were added.
Operators(circ) == [i \in 1..Len(circ.comps) |-> circ.comps[i].comp]

\* C22: for every index 0..23 the operators of the rail-form entry compose
\* to the reference Clifford operator of the index up to a global phase, so
\* do the operators of the circuit that local_clifford_circuit builds from
\* the polarization-form entry, and the two forms compose to the same
\* operator.
C22_TablesMatchReference ==
    /\ ret.op = "CLIFFORD_TO_PERCEVAL_BS" =>
           LET idx == ret.value[1]
               U   == Compose(ret.value[2])
           IN  /\ SameOperator(U, CLIFFORD(idx))
               /\ SameOperator(U, Compose(CLIFFORD_TO_PERCEVAL_POLAR[idx + 1]))
    /\ (ret.op = "local_clifford_circuit" /\ ret.raised = "None") =>
           LET cid == ret.value[1]
               U   == Compose(Operators(ret.value[2]))
           IN  /\ SameOperator(U, CLIFFORD(cid))
               /\ SameOperator(U, Compose(CLIFFORD_TO_PERCEVAL_BS[cid + 1]))

\* The circuit of an index whose polarization-form entry has three operators.
C22_Witness ==
    /\ ret.op = "local_clifford_circuit"
    /\ ret.raised = "None"
    /\ Len(ret.value[2].comps) = 3
    /\ ret.value[1] >= 16

-----------------------------------------------------------------------------
(* Properties of the sub-circuits *)

\* The positions in a circuit of the components of one name.
Where(circ, name) == {i \in 1..Len(circ.comps) : circ.comps[i].comp.name = name}

\* The modes of the rotations of linear_circuit that come after its first
\* splitter and before its barrier.
InnerRotations(circ) ==
    LET first   == Min(Where(circ, "PBS"))
        barrier == Min(Where(circ, "PERM"))
    IN  {circ.comps[i].port :
            i \in {k \in Where(circ, "HWP") : first < k /\ k < barrier}}

\* What linear_circuit(n) holds besides its inner rotations: a rotation on
\* every mode first, then the splitters on the pairs (0, 1), ..., (n-2, n-1)
\* in this order, the barrier on all n modes, and a rotation on mode 0 and
\* on mode n - 1 at the end.
LinearFrame(circ, n) ==
    LET comps    == circ.comps
        splitter == [i \in 1..Len(comps) |-> comps[i].comp.name = "PBS"]
        pbs      == SelectSeq(comps, LAMBDA e : e.comp = PBS)
        last     == Len(comps)
    IN  /\ circ.m = n
        /\ \A i \in 1..n : comps[i] = [port |-> i - 1, comp |-> HWP(1)]
        /\ [i \in 1..Len(pbs) |-> pbs[i].port] = range(0, n - 1)
        /\ Cardinality(Where(circ, "PERM")) = 1
        /\ comps[last - 2] = [port |-> 0, comp |-> PERM(range(0, n))]
        /\ comps[last - 1] = [port |-> 0, comp |-> HWP(1)]
        /\ comps[last] = [port |-> n - 1, comp |-> HWP(1)]
        /\ \A i \in Where(circ, "PBS") : n < i /\ i < last - 2

\* C23 as stated: for n >= 4 the inner rotations of linear_circuit(n) are on
\* modes other than 0, 1, n-2 and n-1.
C23_InnerRotationsAwayFromEnds ==
    (ret.op = "linear_circuit" /\ ret.value[1] >= 4) =>
        LET n == ret.value[1]
        IN  /\ LinearFrame(ret.value[2], n)
            /\ InnerRotations(ret.value[2]) \cap {0, 1, n - 2, n - 1} = {}

\* C23, amended: for n >= 4 the inner rotations of linear_circuit(n) are on
\* the modes 2..n-2, one on each, the one on mode m right after the splitter
\* on (m-1, m); the modes 0, 1 and n-1 have none.  The rest is as stated.
C23_LinearPattern ==
    (ret.op = "linear_circuit" /\ ret.value[1] >= 4) =>
        LET n    == ret.value[1]
            circ == ret.value[2]
        IN  /\ LinearFrame(circ, n)
            /\ InnerRotations(circ) = 2..(n - 2)
            /\ Len(circ.comps) = n + (n - 1) + (n - 3) + 3
            /\ \A i \in Where(circ, "PBS") :
                   LET m == circ.comps[i].port + 1
                   IN  m \in 2..(n - 2) =>
                           circ.comps[i + 1] = [port |-> m, comp |-> HWP(1)]

\* linear_circuit(5)
C23_Witness ==
    /\ ret.op = "linear_circuit"
    /\ ret.value[1] = 5

-----------------------------------------------------------------------------
(* Properties of the stages of the network *)

\* The elements that setup_perceval_circuit added in one stage, in order.
Stage(net, k) == SelectSeq(net.elems, LAMBDA e : e.stage = k)

\* C24: each of the three barriers of the network is the identity
\* permutation on all its modes, twice the photon count.
C24_FullWidthBarriers ==
    (ret.op = "setup_perceval_circuit" /\ ret.raised = "None") =>
        LET net == ret.value[1]
        IN  /\ net.m = 2 * pcc.num_photons
            /\ \A k \in {2, 4, 6} :
                   /\ Len(Stage(net, k)) = 1
                   /\ Stage(net, k)[1].port = 0
                   /\ Stage(net, k)[1].comp = PERM(range(0, net.m))

-----------------------------------------------------------------------------
(* Properties of the fusion sub-circuits *)

\* Where the modes of a circuit are, loc[k + 1] the place of mode k, after a
\* permutation placed at port: the mode at port + i goes to port + perm[i].
Moved(loc, port, perm) ==
    [k \in 1..Len(loc) |->
        IF port <= loc[k] /\ loc[k] < port + Len(perm)
        THEN port + perm[loc[k] - port + 1]
        ELSE loc[k]]

RECURSIVE Locations(_, _)
\* Where the modes are after the permutations among comps, in order.
Locations(comps, loc) ==
    IF comps = << >> THEN loc
    ELSE Locations(Tail(comps),
                   IF comps[1].comp.name = "PERM"
                   THEN Moved(loc, comps[1].port, comps[1].comp.args)
                   ELSE loc)

\* The sub-circuit of the pair (a, b), b.id - a.id = l >= 1: l + 1 modes,
\* mode 0 that of a and mode l that of b; one splitter, on the two places
\* where the modes of a and b are when it acts, then the rotation on the
\* place of the mode of b; with l = 1 nothing else, with l > 1 a permutation
\* before and one after, each a bijection, after which every mode is back
\* in its place.
FusionPattern(a, b, circ) ==
    LET l     == b.id - a.id
        comps == circ.comps
        s     == Min(Where(circ, "PBS"))
        start == range(0, l + 1)
        at    == Locations(SubSeq(comps, 1, s - 1), start)
    IN  /\ l >= 1
        /\ circ.m = l + 1
        /\ Cardinality(Where(circ, "PBS")) = 1
        /\ {at[1], at[l + 1]} = {comps[s].port, comps[s].port + 1}
        /\ comps[s + 1] = [port |-> at[l + 1], comp |-> HWP(1)]
        /\ Len(comps) = IF l > 1 THEN 4 ELSE 2
        /\ l > 1 => s = 2 /\ Where(circ, "PERM") = {1, 4}
        /\ \A i \in Where(circ, "PERM") :
               /\ Range(comps[i].comp.args) = 0..(comps[i].comp.m - 1)
               /\ comps[i].port + comps[i].comp.m <= l + 1
        /\ Locations(comps, start) = start

\* C25: the sub-circuit that fusion_circuit returns for a pair (a, b) with
\* l = b.id - a.id >= 1 has l + 1 modes, the splitter on the modes of a and
\* b, the rotation on the mode of b and, when l > 1, two permutations that
\* compose to the identity; in the network it is placed on the modes
\* a.id..b.id.
C25_FusionCircuit ==
    /\ (ret.op = "fusion_circuit" /\ ret.raised = "None") =>
           LET p1 == ret.value[1]
               p2 == ret.value[2]
           IN  IF p1.id < p2.id
               THEN FusionPattern(p1, p2, ret.value[3])
               ELSE FusionPattern(p2, p1, ret.value[3])
    /\ (ret.op = "setup_perceval_circuit" /\ ret.raised = "None") =>
           LET fs == Stage(ret.value[1], 3)
           IN  /\ Len(fs) = Len(pcc.fusion_pairs)
               /\ \A j \in 1..Len(fs) :
                      LET a == PhotonOf(pcc.fusion_pairs[j][1])
                          b == PhotonOf(pcc.fusion_pairs[j][2])
                      IN  /\ FusionPattern(a, b, fs[j].comp)
                          /\ fs[j].port = a.id
                          /\ fs[j].port + fs[j].comp.m - 1 = b.id

\* A network with the sub-circuit of a pair that has two modes or more
\* between its photons.
C25_Witness ==
    /\ ret.op = "setup_perceval_circuit"
    /\ ret.raised = "None"
    /\ \E pr \in Range(pcc.fusion_pairs) : pr[2] - pr[1] >= 3

-----------------------------------------------------------------------------
(* Properties of the corrections *)

\* C26: a call apply_local_clifford(vops) that succeeds on a fused builder
\* appends one entry for every node of vops, in the order of vops: the entry
\* is on the one photon of the node that is not a WITNESS, which is the one
\* with the lowest id, and holds the operators of the polarization-form
\* entry of the node's index; the entries that were there stay.  No entry
\* of the list is ever on a WITNESS photon, and the correction stage of the
\* network holds the entries of the list in order, each on the mode whose
\* index is the id of its photon.
C26_Corrections ==
    [][/\ (ret'.op = "apply_local_clifford" /\ ret'.raised = "None") =>
              LET vops == ret'.value[1]
                  old  == Len(pcc.clifford_comps)
                  new  == SubSeq(pcc'.clifford_comps, old + 1,
                                 Len(pcc'.clifford_comps))
              IN  /\ SubSeq(pcc'.clifford_comps, 1, old) = pcc.clifford_comps
                  /\ Len(new) = Len(vops)
                  /\ \A i \in 1..Len(vops) :
                         LET ids == Range(DictGet(pcc.node_id2photon_ids,
                                                  vops[i][1]))
                         IN  /\ new[i].photon_id = Min(ids)
                             /\ {p \in ids : PhotonOf(p).type /= "WITNESS"}
                                    = {Min(ids)}
                             /\ new[i].comp.m = 1
                             /\ \A c \in Range(new[i].comp.comps) : c.port = 0
                             /\ Operators(new[i].comp)
                                    = CLIFFORD_TO_PERCEVAL_POLAR[vops[i][2] + 1]
       /\ \A e \in Range(pcc'.clifford_comps) :
              pcc'.photons[e.photon_id + 1].type /= "WITNESS"
       /\ (ret'.op = "setup_perceval_circuit" /\ ret'.raised = "None") =>
              LET cs == Stage(ret'.value[1], 5)
              IN  /\ Len(cs) = Len(pcc.clifford_comps)
                  /\ \A i \in 1..Len(cs) :
                         /\ cs[i].port = pcc.clifford_comps[i].photon_id
                         /\ cs[i].comp = pcc.clifford_comps[i].comp
                         /\ cs[i].comp.m = 1]_vars

\* Corrections applied to two nodes, one of them a node with a witness.
C26_Witness ==
    /\ ret.op = "apply_local_clifford"
    /\ ret.raised = "None"
    /\ Len(ret.value) = 1
    /\ Len(ret.value[1]) = 2
    /\ \E i \in 1..2 :
           Len(DictGet(pcc.node_id2photon_ids, ret.value[1][i][1])) = 2

-----------------------------------------------------------------------------
(* Properties of the cluster stage *)

\* The modes [s_j, s_j + n_j) of the j-th registered cluster.
Block(clusters, j) ==
    {Offset(clusters, j - 1) + i : i \in 0..(Len(clusters[j].nodes) - 1)}

\* C27: in the cluster stage of the network the sub-circuit of the j-th
\* registered cluster has as many modes as the cluster has nodes and starts
\* at the sum of the node counts of the clusters before it; these blocks are
\* pairwise disjoint, together they are the modes 0..num_photons - 1, and
\* the photons whose ids are in the block of a cluster are those of the
\* nodes of that cluster, in order.
C27_ClusterBlocks ==
    (ret.op = "setup_perceval_circuit" /\ ret.raised = "None") =>
        LET cs == Stage(ret.value[1], 1)
            cl == pcc.clusters
        IN  /\ Len(cs) = Len(cl)
            /\ \A j \in 1..Len(cl) :
                   /\ cs[j].port = Offset(cl, j - 1)
                   /\ cs[j].comp.m = Len(cl[j].nodes)
            /\ \A j, k \in 1..Len(cl) :
                   j /= k => Block(cl, j) \cap Block(cl, k) = {}
            /\ UNION {Block(cl, j) : j \in 1..Len(cl)}
                   = {i - 1 : i \in 1..pcc.num_photons}
            /\ \A j \in 1..Len(cl) :
                   \A i \in 1..Len(cl[j].nodes) :
                       LET pos == Offset(cl, j - 1) + i
                       IN  /\ pos <= Len(pcc.photons)
                           /\ pcc.photons[pos].id = pos - 1
                           /\ pcc.photons[pos].node_id = cl[j].nodes[i]

-----------------------------------------------------------------------------
(* Properties of the conversion to dual-rail encoding *)

\* The modes an element of the network acts on.
ModesOf(e) == {e.port + k : k \in 0..(e.comp.m - 1)}

\* C28: the conversion stage of the network of an experiment of n photons
\* is one permutation of all the 2n modes that keeps the photons in order,
\* the mode of photon i and its empty mode going to 2i and 2i + 1, and then
\* one polarizing splitter per photon, that of photon i on the modes 2i and
\* 2i + 1.  Every condition of an installed postselection constraint is on
\* modes of one splitter and the conditions cover the modes of every
\* splitter; every key of the output-label map counts one photon on the
\* modes of every splitter, and the digit of a READOUT photon in the label
\* is the count on the first mode of its splitter.
C28_ConversionModes ==
    LET net  == exp.circ
        n    == Len(exp.photons)
        cs   == Stage(net, 8)
        perm == cs[1].comp.args
        pair(i) == ModesOf(cs[i + 2])
    IN  /\ net.m = 2 * n
        /\ Len(cs) = n + 1
        /\ cs[1].port = 0
        /\ cs[1].comp.name = "PERM"
        /\ Len(perm) = 2 * n
        /\ Range(perm) = {k - 1 : k \in 1..(2 * n)}
        /\ \A i, j \in 1..n :
               i < j => perm[i] < perm[j] /\ perm[n + i] < perm[n + j]
        /\ \A i \in 0..(n - 1) :
               /\ exp.photons[i + 1].id = i
               /\ cs[i + 2].comp = PBS
               /\ pair(i) = {2 * i, 2 * i + 1}
               /\ pair(i) = {perm[i + 1], perm[n + i + 1]}
        /\ (exp.processor /= << >> /\ exp.processor[1].postselect /= << >>) =>
               LET ps == exp.processor[1].postselect[1]
               IN  /\ \A c \in Range(ps) :
                          \E i \in 0..(n - 1) : Range(c.modes) \subseteq pair(i)
                   /\ \A i \in 0..(n - 1) :
                          UNION {Range(c.modes) : c \in Range(ps)} \cap pair(i)
                              = pair(i)
        /\ exp.output_states /= << >> =>
               LET rs == get_readout_photons(exp)
               IN  \A e \in Range(exp.output_states[1]) :
                       /\ Len(e.key) = net.m
                       /\ \A i \in 0..(n - 1) :
                              e.key[2 * i + 1] + e.key[2 * i + 2] = 1
                       /\ \A r \in 1..Len(rs) :
                              e.val[r] = e.key[Min(pair(rs[r].id)) + 1]

\* An experiment of three photons, two of them READOUT, with its
\* output-label map derived and a postselection constraint installed.
C28_Witness ==
    /\ Len(exp.photons) = 3
    /\ Len(get_readout_photons(exp)) = 2
    /\ exp.output_states /= << >>
    /\ exp.processor /= << >>
    /\ exp.processor[1].postselect /= << >>

-----------------------------------------------------------------------------
(* Properties of the measurement-basis stage *)

\* C29: the measurement-basis stage of the network holds, for the photons
\* that are COMPUTE when the network is assembled, taken by increasing id,
\* a QWP of the first angle of the photon and then an HWP of its second
\* angle, both on the mode whose index is the id of the photon, and nothing
\* else: no element of the stage is on the mode of a WITNESS or READOUT
\* photon.
C29_BasisRotations ==
    (ret.op = "setup_perceval_circuit" /\ ret.raised = "None") =>
        LET bs == Stage(ret.value[1], 7)
            cp == SelectSeq(pcc.photons, LAMBDA ph : ph.type = "COMPUTE")
        IN  /\ Len(bs) = 2 * Len(cp)
            /\ \A k \in 1..Len(cp) :
                   /\ bs[2 * k - 1] = Elem(7, cp[k].id, QWP(cp[k].angle[1]))
                   /\ bs[2 * k] = Elem(7, cp[k].id, HWP(cp[k].angle[2]))
            /\ \A j, k \in 1..Len(cp) : j < k => cp[j].id < cp[k].id
            /\ \A ph \in Range(pcc.photons) :
                   ph.type \in {"WITNESS", "READOUT"} =>
                       \A e \in Range(bs) : e.port /= ph.id

\* A network assembled over a READOUT, a COMPUTE and a WITNESS photon.
C29_Witness ==
    /\ ret.op = "setup_perceval_circuit"
    /\ ret.raised = "None"
    /\ {ph.type : ph \in Range(pcc.photons)} = {"READOUT", "COMPUTE", "WITNESS"}

-----------------------------------------------------------------------------
(* Properties of the output-label map and the postselection constraint *)

RECURSIVE Detected(_, _)
\* The number of photons an outcome counts on the modes given.
Detected(outcome, modes) ==
    IF modes = << >> THEN 0
    ELSE outcome[modes[1] + 1] + Detected(outcome, Tail(modes))

\* An outcome passes a constraint when it meets every condition of it.
Passes(outcome, ps) ==
    \A c \in Range(ps) : Detected(outcome, c.modes) = c.value

\* The outcomes of an experiment: up to two photons counted on each of the
\* modes of its network.
Outcomes(self) == [1..(2 * Len(self.photons)) -> 0..2]

\* C30: after a postselected query on a bound experiment, an outcome passes
\* the constraint that set_postselection installed exactly when it is a key
\* of the output-label map; and every outcome of the raw result that passes
\* the constraint the query ran under is kept in the formatted result,
\* under its label and with its value.
C30_MapMatchesConstraint ==
    (ret.op \in {"get_probability_distribution", "sample"} /\ ret.raised = "None") =>
        LET out == exp.output_states[1]
            ps  == exp.processor[1].postselect[1]
        IN  /\ \A o \in Outcomes(exp) : DictHas(out, o) <=> Passes(o, ps)
            /\ qry.result = replace_keys(qry.raw, out)
            /\ \A e \in Range(qry.raw) :
                   Passes(e.key, qry.ran[1]) =>
                       /\ DictHas(out, e.key)
                       /\ DictHas(qry.result, DictGet(out, e.key))
                       /\ DictGet(qry.result, DictGet(out, e.key)) = e.val

\* A postselected query on an experiment with a READOUT photon and one that
\* is not, the raw result holding an outcome that passes and one that does
\* not.
C30_Witness ==
    /\ ret.op \in {"get_probability_distribution", "sample"}
    /\ ret.raised = "None"
    /\ Len(exp.photons) = 2
    /\ Len(get_readout_photons(exp)) = 1
    /\ \E e \in Range(qry.raw) : Passes(e.key, qry.ran[1])
    /\ \E e \in Range(qry.raw) : ~Passes(e.key, qry.ran[1])

-----------------------------------------------------------------------------
(* Properties of the dictionary interface of the results *)

\* C31: after construction, replace_keys and any item assignments, the keys
\* that keys() reports are the keys of items(), the length is the number of
\* entries of items(), and a string key is a member exactly when its lookup
\* succeeds.
C31_DictInterface ==
    LET r == ResultOf(qry)
    IN  /\ Range(keys(r)) = {e.key : e \in Range(items(r))}
        /\ len(r) = Len(items(r))
        /\ \A key \in ResultKeys :
               key.str => (contains(r, key) <=> getitem(r, key).raised = "None")

-----------------------------------------------------------------------------
(* Properties of repeated fusion discovery *)

\* C32: a call of add_fusions on a builder that is already fused leaves the
\* list of fusion pairs and the type of every photon as they were, and the
\* fusion stage of a network holds no pair twice.
C32_FusionOnce ==
    [][/\ (pcc.is_fused /\ ret'.op = "add_fusions") =>
              /\ pcc'.fusion_pairs = pcc.fusion_pairs
              /\ Len(pcc'.photons) = Len(pcc.photons)
              /\ \A i \in 1..Len(pcc.photons) :
                     pcc'.photons[i].type = pcc.photons[i].type
       /\ (ret'.op = "setup_perceval_circuit" /\ ret'.raised = "None") =>
              LET fs == Stage(ret'.value[1], 3)
              IN  /\ Len(fs) = Len(pcc.fusion_pairs)
                  /\ \A i, j \in 1..Len(fs) :
                         i < j => pcc.fusion_pairs[i] /= pcc.fusion_pairs[j]]_vars

====
